---------------------------- MODULE Spec2Model ----------------------------
(***************************************************************************)
(* A model of the ProjecTo exhibit core:                                   *)
(*   - StageController      (src/src/core/stage_controller.py)             *)
(*   - EnhancedRobotInterface (src/src/robot/enhanced_robot_interface.py)  *)
(*     with its device adapter ManipulatorRobot and the robot_utils        *)
(*     helpers it calls.                                                   *)
(* Coroutines run on one asyncio event loop: a step of the model is the    *)
(* code executed between two suspension points (await asyncio.sleep).      *)
(***************************************************************************)
EXTENDS Integers, Sequences, FiniteSets, Bags, TLC

VARIABLES
    \* ---- StageController ----
    current_stage,      \* self.current_stage
    previous_stage,     \* self.previous_stage (None or a stage name)
    stage_data,         \* self.stage_data : stage name -> data bag
    idle_timer_active,  \* self.idle_timer.isActive()
    sc_running,         \* TRUE between start() and stop()
    stage_events,       \* signals emitted by the last StageController call
    stage_call,         \* the last StageController call and its arguments
    stage_ret,          \* what that call returned
    \* ---- EnhancedRobotInterface ----
    interface,          \* the class of the robot interface the system built
    LEROBOT_AVAILABLE,  \* whether the import of the LeRobot integration succeeded
    installation,       \* what else the machine the program runs on provides
    is_connected,       \* self.is_connected
    current_position,   \* self.current_position (a preset name or "unknown")
    target_position,    \* self.target_position (None or a preset name)
    is_moving,          \* self.is_moving
    torque_enabled,     \* self.torque_enabled
    lerobot_robot,      \* self.lerobot_robot: the ManipulatorRobot, or NoRobot
    use_lerobot,        \* self.use_lerobot
    saved_positions,    \* self.saved_positions : preset name -> position
    positions_file,     \* the content of robot_positions.json
    hw_position,        \* the goal positions the motors hold
    tasks,              \* the coroutines suspended at an await
    robot_events,       \* signals emitted by the last step of the interface
    adapter_io,         \* reads and writes the adapter received in that step
    robot_call,         \* the last step of the interface
    robot_ret,          \* what it returned (None while suspended)
    \* ---- helper functions called on their own ----
    fn_call,            \* the last call of a helper function and its arguments
    fn_ret              \* what that call returned

stage_vars == <<current_stage, previous_stage, stage_data, idle_timer_active,
                sc_running, stage_events, stage_call, stage_ret>>

robot_vars == <<interface, LEROBOT_AVAILABLE, installation, is_connected, current_position, target_position,
                is_moving, torque_enabled, lerobot_robot, use_lerobot, saved_positions,
                positions_file, hw_position, tasks, robot_events, adapter_io,
                robot_call, robot_ret>>

calc_vars == <<fn_call, fn_ret>>

vars == <<stage_vars, robot_vars, calc_vars>>

\* Python values a call returns.
None == "None"
True == "True"
False == "False"

(***************************************************************************)
(* AppSettings.Stage: the closed set of stage names.                       *)
(***************************************************************************)
REST == "rest"
PRIMARY_INTERACTION == "primary_interaction"
MENU_DETAIL == "menu_detail"
OBJECT_RECOGNITION == "object_recognition"
SMART_CONTROL == "smart_control"
TRACKING_MODE == "tracking_mode"
GAME_MODE == "game_mode"
KEYBOARD_INPUT == "keyboard_input"

DEFAULT_STAGE == REST

valid_stages ==
    {REST, PRIMARY_INTERACTION, MENU_DETAIL, OBJECT_RECOGNITION,
     SMART_CONTROL, TRACKING_MODE, GAME_MODE, KEYBOARD_INPUT}

\* Names a caller may pass that are not stages.
InvalidStageNames == {"bogus"}

\* Stage names that calls in the model attach data to.
DataTargets == {MENU_DETAIL}

\* Keyword data of a change_stage call: a dict, as a set of <<key, value>>.
KwargsChoices == {{}, {<<"item", 1>>}}

(***************************************************************************)
(* StageController, as operations on the record of its fields.             *)
(***************************************************************************)
SCState ==
    [current_stage |-> current_stage, previous_stage |-> previous_stage,
     stage_data |-> stage_data, idle_timer_active |-> idle_timer_active,
     events |-> <<>>, ret |-> None]

\* pyqtSignal.emit: the slots run at once and see the fields as they are now.
stage_emit(s, sig, args) ==
    [s EXCEPT !.events = Append(@,
        [sig |-> sig, args |-> args,
         cur |-> s.current_stage, prev |-> s.previous_stage,
         timer |-> s.idle_timer_active])]

\* Faulty variant: every name is taken for a stage.
_is_valid_stage_any(stage) == TRUE

_is_valid_stage(stage) == stage \in valid_stages

\* Faulty variant: the timer is restarted in the rest stage too.
_reset_idle_timer_always_start(s) == [s EXCEPT !.idle_timer_active = TRUE]

_reset_idle_timer(s) ==
    IF s.current_stage # REST
    THEN [s EXCEPT !.idle_timer_active = TRUE]
    ELSE [s EXCEPT !.idle_timer_active = FALSE]

\* The per-stage hooks only print.
_enter_stage(s, stage) == stage_emit(s, "stage_entered", <<stage>>)

_exit_stage(s, stage) == stage_emit(s, "stage_exited", <<stage>>)

dict_set(d, k, v) == [n \in DOMAIN d \cup {k} |-> IF n = k THEN v ELSE d[n]]

\* Faulty variant: stage_changed is emitted, and the timer reset, before the
\* old stage is exited and the fields are assigned.
_do_change_stage_reordered(s, new_stage, kwargs) ==
    LET old_stage == s.current_stage
        s1 == IF kwargs # {}
              THEN [s EXCEPT !.stage_data = dict_set(@, new_stage, kwargs)]
              ELSE s
        s2 == stage_emit(s1, "stage_changed", <<old_stage, new_stage>>)
        s3 == _exit_stage(s2, old_stage)
        s4 == [s3 EXCEPT !.previous_stage = old_stage,
                         !.current_stage = new_stage]
        s5 == _reset_idle_timer(s4)
        s6 == _enter_stage(s5, new_stage)
    IN [s6 EXCEPT !.ret = True]

\* The try block of change_stage: exit the old stage, enter the new one.
_do_change_stage(s, new_stage, kwargs) ==
    LET old_stage == s.current_stage
        s1 == IF kwargs # {}
              THEN [s EXCEPT !.stage_data = dict_set(@, new_stage, kwargs)]
              ELSE s
        s2 == _exit_stage(s1, old_stage)
        s3 == [s2 EXCEPT !.previous_stage = old_stage,
                         !.current_stage = new_stage]
        s4 == _enter_stage(s3, new_stage)
        s5 == stage_emit(s4, "stage_changed", <<old_stage, new_stage>>)
        s6 == _reset_idle_timer(s5)
    IN [s6 EXCEPT !.ret = True]

\* Faulty variant: no shortcut when the stage is already current.
change_stage_no_shortcut(s, new_stage, kwargs) ==
    IF ~_is_valid_stage(new_stage) THEN [s EXCEPT !.ret = False]
    ELSE _do_change_stage(s, new_stage, kwargs)

change_stage(s, new_stage, kwargs) ==
    IF new_stage = s.current_stage THEN [s EXCEPT !.ret = True]
    ELSE IF ~_is_valid_stage(new_stage) THEN [s EXCEPT !.ret = False]
    ELSE _do_change_stage(s, new_stage, kwargs)

\* Faulty variant: after an enter hook that raised, current_stage is set
\* back and previous_stage is not.
_try_change_stage_half_undone(s, new_stage, kwargs, exit_ok, enter_ok) ==
    LET old_stage == s.current_stage
        s1 == IF kwargs # {}
              THEN [s EXCEPT !.stage_data = dict_set(@, new_stage, kwargs)]
              ELSE s
        s2 == _exit_stage(s1, old_stage)
    IN IF ~exit_ok THEN [s1 EXCEPT !.ret = False]
       ELSE IF ~enter_ok THEN [s2 EXCEPT !.previous_stage = old_stage, !.ret = False]
       ELSE _do_change_stage(s, new_stage, kwargs)

\* change_stage where a per-stage hook may raise: exit_ok and enter_ok tell
\* whether the exit hook of the old stage and the enter hook of the new one
\* return.  A hook raises before its signal is emitted; the except clause
\* prints and returns False.
_try_change_stage(s, new_stage, kwargs, exit_ok, enter_ok) ==
    LET old_stage == s.current_stage
        s1 == IF kwargs # {}
              THEN [s EXCEPT !.stage_data = dict_set(@, new_stage, kwargs)]
              ELSE s
        s2 == _exit_stage(s1, old_stage)
        s3 == [s2 EXCEPT !.previous_stage = old_stage,
                         !.current_stage = new_stage]
    IN IF ~exit_ok THEN [s1 EXCEPT !.ret = False]
       ELSE IF ~enter_ok THEN [s3 EXCEPT !.ret = False]
       ELSE _do_change_stage(s, new_stage, kwargs)

change_stage_hooks(s, new_stage, kwargs, exit_ok, enter_ok) ==
    IF new_stage = s.current_stage THEN [s EXCEPT !.ret = True]
    ELSE IF ~_is_valid_stage(new_stage) THEN [s EXCEPT !.ret = False]
    ELSE _try_change_stage(s, new_stage, kwargs, exit_ok, enter_ok)

\* Faulty variant: go_back always leaves for the rest stage.
go_back_to_rest(s) == change_stage(s, REST, {})

go_back(s) ==
    IF s.previous_stage # None
    THEN change_stage(s, s.previous_stage, {})
    ELSE change_stage(s, REST, {})

go_to_rest(s) == change_stage(s, REST, {})

\* Faulty variant: the timeout is ignored.
_on_idle_timeout_ignored(s) == s

_on_idle_timeout(s) == [go_to_rest(s) EXCEPT !.ret = None]

on_user_activity(s) == _reset_idle_timer(s)

start(s) ==
    LET s1 == _enter_stage(s, s.current_stage)
        s2 == _reset_idle_timer(s1)
    IN [s2 EXCEPT !.ret = True]

stop(s) ==
    LET s1 == [s EXCEPT !.idle_timer_active = FALSE]
    IN _exit_stage(s1, s1.current_stage)

set_stage_data(s, key, value, stage) ==
    LET target_stage == IF stage # None THEN stage ELSE s.current_stage
        bag == IF target_stage \in DOMAIN s.stage_data
               THEN s.stage_data[target_stage] ELSE {}
    IN [s EXCEPT !.stage_data =
            dict_set(@, target_stage,
                     {p \in bag : p[1] # key} \cup {<<key, value>>})]

clear_stage_data(s, stage) ==
    LET target_stage == IF stage # None THEN stage ELSE s.current_stage
    IN IF target_stage \in DOMAIN s.stage_data
       THEN [s EXCEPT !.stage_data = dict_set(@, target_stage, {})]
       ELSE s

(***************************************************************************)
(* Positions: a position maps joint names to setpoints (a Python dict).    *)
(***************************************************************************)
EmptyPosition == [j \in {} |-> 0]

\* dict.update: the keys of new overwrite or extend old.
position_update(old, new) ==
    [j \in DOMAIN old \cup DOMAIN new |-> IF j \in DOMAIN new THEN new[j] ELSE old[j]]

\* DEFAULT_SO101_MOTORS without the gripper (include_gripper=False).
follower_motors ==
    {"shoulder_pan", "shoulder_lift", "elbow_flex", "wrist_flex", "wrist_roll"}

get_so101_joint_limits ==
    [shoulder_pan |-> <<-2048, 2048>>, shoulder_lift |-> <<-2048, 2048>>,
     elbow_flex |-> <<-2048, 2048>>, wrist_flex |-> <<-2048, 2048>>,
     wrist_roll |-> <<-2048, 2048>>, gripper |-> <<0, 1024>>]

RestPosition ==
    [shoulder_pan |-> 0, shoulder_lift |-> -1024, elbow_flex |-> 1024,
     wrist_flex |-> 0, wrist_roll |-> 0]

create_default_positions ==
    [rest |-> RestPosition,
     V |-> [shoulder_pan |-> 0, shoulder_lift |-> -1024, elbow_flex |-> 2048,
            wrist_flex |-> -1024, wrist_roll |-> 0],
     tracking |-> [shoulder_pan |-> 0, shoulder_lift |-> -512, elbow_flex |-> 1536,
                   wrist_flex |-> -512, wrist_roll |-> 0],
     vertical |-> [shoulder_pan |-> 0, shoulder_lift |-> 0, elbow_flex |-> -1024,
                   wrist_flex |-> 1024, wrist_roll |-> 0]]

\* The preset table of an interface built without the LeRobot integration.
basic_default_positions == [rest |-> RestPosition]

\* A stored preset document: "far" leaves the range of shoulder_pan above,
\* "grip" leaves the range of gripper below and names a joint ("tilt") that
\* the limit table does not list, "high" is in range, near the upper ends.
StoredDocument ==
    [rest |-> RestPosition,
     far |-> [shoulder_pan |-> 3000, shoulder_lift |-> 0],
     grip |-> [shoulder_pan |-> 0, gripper |-> -4, tilt |-> 9000],
     high |-> [shoulder_pan |-> 2000, shoulder_lift |-> 0, wrist_flex |-> 2000]]

\* What load_positions_from_file makes of robot_positions.json when the
\* interface is built; a missing or unreadable file loads as {}.
Absent == EmptyPosition
StoredDocuments == {Absent, StoredDocument}

\* Preset names callers ask for; "nowhere" is in no table.
MoveNames == {"rest", "V", "far", "grip", "nowhere"}

\* duration arguments, in tenths of a second; 0 stands for every falsy
\* duration (None or 0).
Durations == {0, 2}

check_position_safety_upper_only(positions, limits) ==
    \A joint \in DOMAIN positions :
        joint \in DOMAIN limits => positions[joint] <= limits[joint][2]

check_position_safety(positions, limits) ==
    \A joint \in DOMAIN positions :
        joint \in DOMAIN limits =>
            (limits[joint][1] <= positions[joint] /\ positions[joint] <= limits[joint][2])

\* start + (step/steps) * (end - start), on integer setpoints.
interpolate_positions(start_pos, end_pos, steps) ==
    [step \in 1..(steps + 1) |->
        [joint \in DOMAIN start_pos |->
            IF joint \in DOMAIN end_pos
            THEN start_pos[joint]
                 + ((step - 1) * (end_pos[joint] - start_pos[joint])) \div steps
            ELSE start_pos[joint]]]

(***************************************************************************)
(* EnhancedRobotInterface and its ManipulatorRobot, as operations on the   *)
(* record of their fields.  A coroutine runs until it returns (ret is set) *)
(* or suspends at an await (susp holds what is left of it).  exc is set    *)
(* while an exception propagates, val carries a callee's result.           *)
(***************************************************************************)
NoSusp == [op |-> "none"]

RIState ==
    [is_connected |-> is_connected, current_position |-> current_position,
     target_position |-> target_position, is_moving |-> is_moving,
     torque_enabled |-> torque_enabled, lerobot_robot |-> lerobot_robot,
     use_lerobot |-> use_lerobot, saved_positions |-> saved_positions,
     positions_file |-> positions_file, hw_position |-> hw_position,
     events |-> <<>>, io |-> <<>>, ret |-> None, susp |-> NoSusp,
     exc |-> FALSE, val |-> EmptyPosition, ok |-> FALSE]

\* A signal, with the fields its receivers find when it is delivered.
robot_emit(s, sig, arg) ==
    [s EXCEPT !.events = Append(@, [sig |-> sig, arg |-> arg,
                                    is_moving |-> s.is_moving,
                                    current_position |-> s.current_position])]

\* ---- ManipulatorRobot -------------------------------------------------
Min(a, b) == IF a <= b THEN a ELSE b

Max(a, b) == IF a >= b THEN a ELSE b

\* Faulty variant: the difference is bounded from above only.
ensure_safe_goal_position_upper_only(goal_pos, present_pos, max_relative_target) ==
    [j \in DOMAIN goal_pos |->
        present_pos[j] + Min(goal_pos[j] - present_pos[j], max_relative_target)]

\* torch.minimum and torch.maximum work element by element on tensors of
\* one shape, here the joints of goal_pos.
ensure_safe_goal_position(goal_pos, present_pos, max_relative_target) ==
    [j \in DOMAIN goal_pos |->
        LET diff == goal_pos[j] - present_pos[j]
            safe_diff == Max(Min(diff, max_relative_target), -max_relative_target)
        IN present_pos[j] + safe_diff]

\* max_relative_target is config.max_relative_target: << >> for None, <<M>>
\* for the limit M.
NoRobot == [exists |-> FALSE, is_connected |-> FALSE, mock_mode |-> FALSE,
            mock_positions |-> EmptyPosition, max_relative_target |-> <<>>]

\* ManipulatorRobot(config) with config.mock = False and, as
\* create_projecto_follower_only_config leaves it, max_relative_target = None.
new_manipulator == [exists |-> TRUE, is_connected |-> FALSE, mock_mode |-> FALSE,
                    mock_positions |-> EmptyPosition, max_relative_target |-> <<>>]

_connect_mock_devices(robot) ==
    [robot EXCEPT !.mock_positions = [m \in follower_motors |-> 0]]

\* ManipulatorRobot.connect.  driver_present: the lerobot hardware package
\* can be imported; bus_ok: the motor buses could be opened.
manipulator_connect(robot, driver_present, bus_ok) ==
    IF robot.is_connected THEN [robot |-> robot, ok |-> TRUE]
    ELSE IF ~driver_present
    THEN [robot |-> [_connect_mock_devices(robot) EXCEPT !.mock_mode = TRUE,
                                                          !.is_connected = TRUE],
          ok |-> TRUE]
    ELSE IF bus_ok
    THEN [robot |-> [robot EXCEPT !.is_connected = TRUE], ok |-> TRUE]
    ELSE [robot |-> robot, ok |-> FALSE]

manipulator_disconnect(robot) ==
    IF ~robot.is_connected THEN robot
    ELSE [robot EXCEPT !.is_connected = FALSE]

\* read_position("follower"): val is the position read; hw_ok tells whether
\* the hardware answers.
read_position(s, hw_ok) ==
    LET robot == s.lerobot_robot
        s1 == [s EXCEPT !.io = Append(@, [op |-> "read", position |-> EmptyPosition,
                                          connected |-> robot.is_connected])]
    IN IF ~robot.exists THEN [s EXCEPT !.exc = TRUE]
       ELSE IF ~robot.is_connected THEN [s1 EXCEPT !.exc = TRUE]
       ELSE IF robot.mock_mode THEN [s1 EXCEPT !.val = robot.mock_positions]
       ELSE IF hw_ok THEN [s1 EXCEPT !.val = s.hw_position]
       ELSE [s1 EXCEPT !.val = EmptyPosition]

\* The safety check of write_position: every motor of position that the
\* position read has is kept within max_relative_target of what was read.
safe_position(position, current_pos, max_relative_target) ==
    [motor_name \in DOMAIN position |->
        IF motor_name \in DOMAIN current_pos
        THEN ensure_safe_goal_position(
                 [m \in {motor_name} |-> position[m]],
                 [m \in {motor_name} |-> current_pos[m]],
                 max_relative_target)[motor_name]
        ELSE position[motor_name]]

\* _write_mock_position or _write_real_position: ok is the boolean returned.
\* The record of a write tells how many signals the step had emitted when
\* the write was made.
write_device(s, position, hw_ok) ==
    LET robot == s.lerobot_robot
        s1 == [s EXCEPT !.io = Append(@, [op |-> "write", position |-> position,
                                          connected |-> robot.is_connected,
                                          emitted |-> Len(s.events)])]
    IN IF robot.mock_mode
       THEN [s1 EXCEPT !.lerobot_robot.mock_positions = position_update(@, position),
                       !.ok = TRUE]
       ELSE IF hw_ok
       THEN [s1 EXCEPT !.hw_position = position_update(@, position), !.ok = TRUE]
       ELSE [s1 EXCEPT !.ok = FALSE]

\* Faulty variant: write_position without the check of the connection.
write_position_unchecked(s, position, hw_ok) ==
    IF ~s.lerobot_robot.exists THEN [s EXCEPT !.exc = TRUE]
    ELSE write_device(s, position, hw_ok)

\* write_position(position, "follower"): ok is the boolean returned.  A call
\* on None (no adapter object) raises.  With max_relative_target set the
\* position is first held against a reading of the arm.
write_position(s, position, hw_ok) ==
    LET robot == s.lerobot_robot
    IN IF ~robot.exists THEN [s EXCEPT !.exc = TRUE]
       ELSE IF ~robot.is_connected
       THEN [s EXCEPT !.io = Append(@, [op |-> "write", position |-> position,
                                        connected |-> FALSE,
                                        emitted |-> Len(s.events)]),
                      !.exc = TRUE]
       ELSE IF robot.max_relative_target # <<>>
       THEN LET r == read_position(s, hw_ok)
            IN write_device(r, IF DOMAIN r.val # {}
                               THEN safe_position(position, r.val,
                                                  robot.max_relative_target[1])
                               ELSE position,
                            hw_ok)
       ELSE write_device(s, position, hw_ok)

manipulator_get_current_positions(s, hw_ok) == read_position(s, hw_ok)

manipulator_move_to_position(s, target_positions, hw_ok) ==
    write_position(s, target_positions, hw_ok)

\* ---- EnhancedRobotInterface --------------------------------------------
uses_lerobot(s) == s.lerobot_robot.exists /\ s.use_lerobot

\* Faulty variant: the connection is not looked at.
enable_torque_unchecked(s) ==
    [robot_emit([s EXCEPT !.torque_enabled = TRUE],
                "status_changed", "torque_enabled") EXCEPT !.ret = True]

enable_torque(s) ==
    IF ~s.is_connected THEN [s EXCEPT !.ret = False]
    ELSE [robot_emit([s EXCEPT !.torque_enabled = TRUE],
                     "status_changed", "torque_enabled") EXCEPT !.ret = True]

disable_torque(s) ==
    [robot_emit([s EXCEPT !.torque_enabled = FALSE],
                "status_changed", "torque_disabled") EXCEPT !.ret = True]

\* _connect_basic after its sleep.
_connect_basic_wake(s) ==
    [robot_emit([s EXCEPT !.is_connected = TRUE, !.current_position = "rest"],
                "status_changed", "connected") EXCEPT !.ret = True]

\* _connect_basic: suspends in asyncio.sleep(1).
_connect_basic(s) == [s EXCEPT !.susp = [op |-> "connect", pc |-> "basic_sleep"]]

\* outcome, what the attempt meets: the try block of _connect_lerobot raises
\* outside the adapter's connect ("raises"), the lerobot hardware package
\* is not installed ("no_driver"), the motor bus cannot be opened
\* ("bus_error"), or the arm answers ("ok").
_connect_lerobot(s, outcome) ==
    IF outcome = "raises"
    THEN _connect_basic([s EXCEPT !.use_lerobot = FALSE])
    ELSE LET c == manipulator_connect(new_manipulator, outcome # "no_driver",
                                      outcome = "ok")
             s1 == [s EXCEPT !.lerobot_robot = c.robot]
         IN IF c.ok
            THEN [robot_emit([s1 EXCEPT !.is_connected = TRUE,
                                        !.current_position = "rest"],
                             "status_changed", "connected") EXCEPT !.ret = True]
            ELSE [s1 EXCEPT !.ret = False]

connect(s, outcome) ==
    IF s.use_lerobot THEN _connect_lerobot(s, outcome)
    ELSE _connect_basic(s)

\* Faulty variant: the torque is left as it is.
disconnect_keeps_torque(s) ==
    IF s.is_connected
    THEN LET s2 == IF uses_lerobot(s)
                   THEN [s EXCEPT !.lerobot_robot = manipulator_disconnect(@)]
                   ELSE s
             s3 == [s2 EXCEPT !.is_connected = FALSE, !.current_position = "unknown",
                              !.lerobot_robot = NoRobot]
         IN [robot_emit(s3, "status_changed", "disconnected") EXCEPT !.ret = None]
    ELSE s

disconnect(s) ==
    IF s.is_connected
    THEN LET s1 == disable_torque(s)
             s2 == IF uses_lerobot(s1)
                   THEN [s1 EXCEPT !.lerobot_robot = manipulator_disconnect(@)]
                   ELSE s1
             s3 == [s2 EXCEPT !.is_connected = FALSE, !.current_position = "unknown",
                              !.lerobot_robot = NoRobot]
         IN [robot_emit(s3, "status_changed", "disconnected") EXCEPT !.ret = None]
    ELSE s

emergency_stop(s) ==
    LET s1 == [s EXCEPT !.is_moving = FALSE, !.target_position = None]
        s2 == disable_torque(s1)
    IN [robot_emit(s2, "status_changed", "emergency_stopped") EXCEPT !.ret = None]

\* Faulty variant: movement_completed is emitted before position_reached.
_move_finish_completed_first(s, position_name, success) ==
    LET s1 == [s EXCEPT !.target_position = None, !.is_moving = FALSE]
        s2 == robot_emit(s1, "movement_completed", position_name)
        s3 == IF success
              THEN robot_emit([s2 EXCEPT !.current_position = position_name],
                              "position_reached", position_name)
              ELSE s2
    IN [s3 EXCEPT !.ret = IF success THEN True ELSE False, !.exc = FALSE]

\* move_to_position, from the return of _move_lerobot or _move_basic on.
_move_finish(s, position_name, success) ==
    LET s1 == IF success
              THEN robot_emit([s EXCEPT !.current_position = position_name],
                              "position_reached", position_name)
              ELSE s
        s2 == [s1 EXCEPT !.target_position = None, !.is_moving = FALSE]
    IN [robot_emit(s2, "movement_completed", position_name)
            EXCEPT !.ret = IF success THEN True ELSE False, !.exc = FALSE]

\* get_status: the status string, as the pair of its prefix and the name
\* formatted into it.
get_status(s) ==
    IF ~s.is_connected THEN <<"disconnected">>
    ELSE IF s.is_moving THEN <<"moving_to", s.target_position>>
    ELSE IF ~s.torque_enabled THEN <<"idle_at", s.current_position>>
    ELSE <<"ready_at", s.current_position>>

\* Faulty variant: the target is forgotten before the movement has ended.
_move_basic_drops_target(s, position_name) ==
    [s EXCEPT !.target_position = None,
              !.susp = [op |-> "move_to_position", pc |-> "basic_sleep",
                        name |-> position_name]]

\* The except clause of move_to_position.
_move_failed(s) ==
    [robot_emit([s EXCEPT !.is_moving = FALSE, !.target_position = None],
                "error_occurred", "move") EXCEPT !.ret = False, !.exc = FALSE]

\* _move_basic: suspends in asyncio.sleep(move_duration).
_move_basic(s, position_name) ==
    [s EXCEPT !.susp = [op |-> "move_to_position", pc |-> "basic_sleep",
                        name |-> position_name]]

\* The loop of smooth_move_to_position from waypoint i on: each waypoint is
\* written (the result of the write is not looked at) and followed by
\* time.sleep(delay), which does not give the event loop away, so the
\* whole loop is one step.  exc is set when a write raised.
\* write_ok[i] tells whether the hardware answers the write of waypoint i.
RECURSIVE write_path(_, _, _, _)
write_path(s, path, i, write_ok) ==
    IF i > Len(path) THEN s
    ELSE LET w == manipulator_move_to_position(s, path[i], write_ok[i])
         IN IF w.exc THEN w ELSE write_path(w, path, i + 1, write_ok)

\* Faulty variant: the target is written at once, without waypoints.
smooth_move_to_position_direct(s, target_positions, steps, hw_ok, write_ok) ==
    LET r == manipulator_get_current_positions(s, hw_ok)
        w == manipulator_move_to_position(r, target_positions, write_ok[1])
    IN IF r.exc THEN [r EXCEPT !.ok = FALSE, !.exc = FALSE]
       ELSE IF w.exc THEN [w EXCEPT !.ok = FALSE, !.exc = FALSE]
       ELSE [w EXCEPT !.ok = TRUE]

\* smooth_move_to_position: ok is the boolean returned.
smooth_move_to_position(s, target_positions, steps, hw_ok, write_ok) ==
    LET r == manipulator_get_current_positions(s, hw_ok)
        w == write_path(r, interpolate_positions(r.val, target_positions, steps), 1,
                        write_ok)
    IN IF r.exc THEN [r EXCEPT !.ok = FALSE, !.exc = FALSE]
       ELSE IF w.exc THEN [w EXCEPT !.ok = FALSE, !.exc = FALSE]
       ELSE [w EXCEPT !.ok = TRUE]

\* _move_lerobot: ok is the boolean returned; duration is in tenths of a
\* second, so that steps = int(duration * 10) is duration itself.
_move_lerobot(s, target_positions, duration, hw_ok, write_ok) ==
    IF duration # 0
    THEN smooth_move_to_position(s, target_positions, duration, hw_ok, write_ok)
    ELSE LET w == manipulator_move_to_position(s, target_positions, write_ok[1])
         IN IF w.exc THEN [w EXCEPT !.ok = FALSE, !.exc = FALSE] ELSE w

move_to_position_no_busy_check(s, position_name, duration, lerobot_available, hw_ok, write_ok) ==
    IF ~s.is_connected THEN [s EXCEPT !.ret = False]
    ELSE IF position_name \notin DOMAIN s.saved_positions THEN [s EXCEPT !.ret = False]
    ELSE IF ~lerobot_available THEN _move_failed(s)
    ELSE IF ~check_position_safety(s.saved_positions[position_name],
                                   get_so101_joint_limits)
    THEN [s EXCEPT !.ret = False]
    ELSE LET target_positions == s.saved_positions[position_name]
             s1 == robot_emit([s EXCEPT !.is_moving = TRUE,
                                        !.target_position = position_name],
                              "movement_started", position_name)
         IN IF uses_lerobot(s1)
            THEN LET m == _move_lerobot(s1, target_positions, duration, hw_ok, write_ok)
                 IN _move_finish(m, position_name, m.ok)
            ELSE _move_basic(s1, position_name)

move_to_position(s, position_name, duration, lerobot_available, hw_ok, write_ok) ==
    IF ~s.is_connected THEN [s EXCEPT !.ret = False]
    ELSE IF s.is_moving THEN [s EXCEPT !.ret = False]
    ELSE IF position_name \notin DOMAIN s.saved_positions THEN [s EXCEPT !.ret = False]
    ELSE IF ~lerobot_available THEN _move_failed(s)
    ELSE IF ~check_position_safety(s.saved_positions[position_name],
                                   get_so101_joint_limits)
    THEN [s EXCEPT !.ret = False]
    ELSE LET target_positions == s.saved_positions[position_name]
             s1 == robot_emit([s EXCEPT !.is_moving = TRUE,
                                        !.target_position = position_name],
                              "movement_started", position_name)
         IN IF uses_lerobot(s1)
            THEN LET m == _move_lerobot(s1, target_positions, duration, hw_ok, write_ok)
                 IN _move_finish(m, position_name, m.ok)
            ELSE _move_basic(s1, position_name)

\* A move_to_position coroutine suspended in _move_basic runs on.
move_resume(s, t) == _move_finish(s, t.name, TRUE)

\* ---- the preset table and its file ---------------------------------------
\* save_positions: open(file, 'w'), which empties the file, and json.dump of
\* the whole table into it.  A table of string keys and numbers is read back
\* from its JSON text as it was written, so the file is modelled by the
\* table load_positions_from_file reads from it.  storage is the answer of
\* the file system: "written", the table is in the file; "refused", the
\* file could not be opened and is as it was; "torn", the write broke off
\* after the file was opened, which leaves no JSON document in it.  A
\* failure is only printed.
save_positions(s, storage) ==
    CASE storage = "written" -> [s EXCEPT !.positions_file = s.saved_positions]
      [] storage = "refused" -> s
      [] storage = "torn" -> [s EXCEPT !.positions_file = Absent]

\* load_positions, called by __init__ with saved_positions = {}: the file is
\* read only where the LeRobot integration was imported; an empty table is
\* replaced by the defaults, which are written back.
load_positions(s, lerobot_available, storage) ==
    LET loaded == IF lerobot_available THEN s.positions_file ELSE s.saved_positions
    IN IF DOMAIN loaded # {} THEN [s EXCEPT !.saved_positions = loaded]
       ELSE save_positions([s EXCEPT !.saved_positions =
                                        IF lerobot_available THEN create_default_positions
                                        ELSE basic_default_positions],
                           storage)

\* EnhancedRobotInterface.get_current_positions: val is the position.
get_current_positions(s, hw_ok) ==
    IF ~s.is_connected THEN [s EXCEPT !.val = EmptyPosition]
    ELSE IF uses_lerobot(s) THEN manipulator_get_current_positions(s, hw_ok)
    ELSE [s EXCEPT !.val = IF s.current_position \in DOMAIN s.saved_positions
                            THEN s.saved_positions[s.current_position]
                            ELSE EmptyPosition]

\* dict item assignment, dict item deletion.
table_set(table, name, position) ==
    [n \in DOMAIN table \cup {name} |-> IF n = name THEN position ELSE table[n]]

table_del(table, name) == [n \in DOMAIN table \ {name} |-> table[n]]

\* save_current_position: an empty reading falls off the end of the
\* function, which returns None.
save_current_position(s, position_name, hw_ok, storage) ==
    IF ~s.is_connected THEN [s EXCEPT !.ret = False]
    ELSE LET r == get_current_positions(s, hw_ok)
         IN IF r.exc THEN [r EXCEPT !.ret = False, !.exc = FALSE]
            ELSE IF DOMAIN r.val # {}
            THEN [save_positions(
                      [r EXCEPT !.saved_positions =
                                    table_set(@, position_name, r.val)],
                      storage) EXCEPT !.ret = True]
            ELSE [r EXCEPT !.ret = None]

delete_position(s, position_name, storage) ==
    IF position_name \in DOMAIN s.saved_positions
    THEN [save_positions([s EXCEPT !.saved_positions = table_del(@, position_name)],
                         storage) EXCEPT !.ret = True]
    ELSE [s EXCEPT !.ret = False]

\* ---- track_gesture ----------------------------------------------------
\* Screen coordinates x, y in tenths: (x - 0.5) * 500 and (0.5 - y) * 300.
pan_offset(x) == (x - 5) * 50

lift_offset(y) == (5 - y) * 30

\* dict.get(joint, 0).
position_get(position, joint) ==
    IF joint \in DOMAIN position THEN position[joint] ELSE 0

\* track_gesture: the target is sent only when check_position_safety
\* accepts it; the result of the adapter's move is not looked at.
track_gesture(s, x, y, hw_ok) ==
    IF ~s.is_connected \/ ~s.torque_enabled THEN [s EXCEPT !.ret = False]
    ELSE IF ~uses_lerobot(s) THEN [s EXCEPT !.ret = True]
    ELSE LET r == manipulator_get_current_positions(s, hw_ok)
             current_positions == r.val
             target_positions ==
                 position_update(current_positions,
                     [shoulder_pan |-> position_get(current_positions, "shoulder_pan")
                                       + pan_offset(x),
                      shoulder_lift |-> position_get(current_positions, "shoulder_lift")
                                        + lift_offset(y)])
         IN IF r.exc THEN [r EXCEPT !.ret = False, !.exc = FALSE]
            ELSE IF check_position_safety(target_positions, get_so101_joint_limits)
            THEN LET w == manipulator_move_to_position(r, target_positions, hw_ok)
                 IN IF w.exc THEN [w EXCEPT !.ret = False, !.exc = FALSE]
                    ELSE [w EXCEPT !.ret = True]
            ELSE [r EXCEPT !.ret = True]

\* ---- nod ----------------------------------------------------------------
\* The except clause of nod.
_nod_failed(s) ==
    [robot_emit(s, "error_occurred", "nod") EXCEPT !.ret = False, !.exc = FALSE,
                                                    !.susp = NoSusp]

\* nod after its return to the original position.
_nod_finish(s) ==
    [robot_emit(s, "movement_completed", "nod") EXCEPT !.ret = True, !.susp = NoSusp]

\* nod after its loop: back to the position it started from.
_nod_return(s, original_pos, lerobot_available, hw_ok) ==
    IF original_pos \in DOMAIN s.saved_positions
    THEN LET m == move_to_position(s, original_pos, 0, lerobot_available, hw_ok,
                                   <<hw_ok>>)
         IN IF m.susp.op # "none"
            THEN [m EXCEPT !.susp = [op |-> "nod", pc |-> "in_move", move |-> m.susp]]
            ELSE _nod_finish(m)
    ELSE _nod_finish(s)

\* One turn of the loop of nod, up to its first sleep; remaining turns left.
_nod_turn(s, original_pos, remaining, lerobot_available, hw_ok) ==
    IF remaining = 0 THEN _nod_return(s, original_pos, lerobot_available, hw_ok)
    ELSE IF uses_lerobot(s)
    THEN LET r == manipulator_get_current_positions(s, hw_ok)
             current_positions == r.val
             nod_down == position_update(current_positions,
                 [j \in {"wrist_flex"} |->
                     (IF "wrist_flex" \in DOMAIN current_positions
                      THEN current_positions["wrist_flex"] ELSE 0) + 200])
             w == manipulator_move_to_position(r, nod_down, hw_ok)
         IN IF r.exc THEN _nod_failed(r)
            ELSE IF w.exc THEN _nod_failed(w)
            ELSE [w EXCEPT !.susp = [op |-> "nod", pc |-> "down_sleep",
                                     current_positions |-> current_positions,
                                     original_pos |-> original_pos,
                                     remaining |-> remaining]]
    ELSE [s EXCEPT !.susp = [op |-> "nod", pc |-> "basic_sleep",
                             original_pos |-> original_pos, remaining |-> remaining]]

nod(s, times, lerobot_available, hw_ok) ==
    IF ~s.is_connected THEN [s EXCEPT !.ret = False]
    ELSE LET s1 == IF ~s.torque_enabled THEN [enable_torque(s) EXCEPT !.ret = None]
                   ELSE s
             s2 == robot_emit(s1, "movement_started", "nod")
         IN _nod_turn(s2, s2.current_position, times, lerobot_available, hw_ok)

\* A suspended nod coroutine runs on.
nod_resume(s, t, lerobot_available, hw_ok) ==
    IF t.pc = "down_sleep"
    THEN LET w == manipulator_move_to_position(s, t.current_positions, hw_ok)
         IN IF w.exc THEN _nod_failed(w)
            ELSE [w EXCEPT !.susp = [op |-> "nod", pc |-> "up_sleep",
                                     original_pos |-> t.original_pos,
                                     remaining |-> t.remaining]]
    ELSE IF t.pc \in {"up_sleep", "basic_sleep"}
    THEN _nod_turn(s, t.original_pos, t.remaining - 1, lerobot_available, hw_ok)
    ELSE LET m == move_resume(s, t.move)
         IN IF m.susp.op # "none"
            THEN [m EXCEPT !.susp = [op |-> "nod", pc |-> "in_move", move |-> m.susp]]
            ELSE _nod_finish(m)

(***************************************************************************)
(* RobotInterface (robot_interface.py), the interface of the system        *)
(* without the LeRobot integration: the same fields, self.robot for        *)
(* lerobot_robot, self.lerobot_available for use_lerobot and the presets   *)
(* of RobotConfig for saved_positions.  Its movements sleep and send       *)
(* nothing to the arm.                                                     *)
(***************************************************************************)
\* RobotConfig.DEFAULT_POSITIONS.
DEFAULT_POSITIONS ==
    [rest |-> [shoulder_pan |-> 0, shoulder_lift |-> -2048, elbow_flex |-> 1024,
               wrist_flex |-> 0, wrist_roll |-> 0, servo_angle |-> 90],
     V |-> [shoulder_pan |-> 0, shoulder_lift |-> -1024, elbow_flex |-> 2048,
            wrist_flex |-> -1024, wrist_roll |-> 0, servo_angle |-> 90],
     tracking |-> [shoulder_pan |-> 0, shoulder_lift |-> -512, elbow_flex |-> 1536,
                   wrist_flex |-> -512, wrist_roll |-> 0, servo_angle |-> 90]]

\* config.movement_steps, the number of sleeps of _move_real_robot less one.
MovementSteps == 1

\* _connect_simulated_robot: suspends in asyncio.sleep(1).
_connect_simulated_robot(s) == _connect_basic(s)

\* _connect_real_robot: the ManipulatorRobot of the lerobot package is built,
\* its connect() raises ("bus_error") or returns ("ok").
_connect_real_robot(s, outcome) ==
    LET s1 == [s EXCEPT !.lerobot_robot = new_manipulator]
    IN IF outcome = "ok"
       THEN [robot_emit([s1 EXCEPT !.lerobot_robot.is_connected = TRUE,
                                   !.is_connected = TRUE,
                                   !.current_position = "rest"],
                        "status_changed", "connected") EXCEPT !.ret = True]
       ELSE _connect_simulated_robot(s1)

RobotInterface_connect(s, outcome) ==
    IF s.use_lerobot THEN _connect_real_robot(s, outcome)
    ELSE _connect_simulated_robot(s)

\* disconnect: self.robot is the ManipulatorRobot of the lerobot package;
\* adapter_ok tells whether its disconnect() returns or raises, which the
\* except clause answers with error_occurred.
RobotInterface_disconnect(s, adapter_ok) ==
    IF s.is_connected /\ uses_lerobot(s) /\ ~adapter_ok
    THEN [robot_emit(disable_torque(s), "error_occurred", "disconnect")
              EXCEPT !.ret = None]
    ELSE disconnect(s)

RobotInterface_enable_torque(s) == enable_torque(s)

RobotInterface_disable_torque(s) == disable_torque(s)

RobotInterface_emergency_stop(s) == emergency_stop(s)

\* move_to_position from the return of the _move_* coroutine on.
\* Faulty variant: the end of the movement is announced twice.
RobotInterface_move_finish_twice(s, position_name) ==
    LET s1 == [s EXCEPT !.current_position = position_name,
                        !.target_position = None, !.is_moving = FALSE]
        s2 == robot_emit(s1, "position_reached", position_name)
        s3 == robot_emit(s2, "movement_completed", position_name)
    IN [robot_emit(s3, "movement_completed", position_name) EXCEPT !.ret = True]

RobotInterface_move_finish(s, position_name) ==
    LET s1 == [s EXCEPT !.current_position = position_name,
                        !.target_position = None, !.is_moving = FALSE]
        s2 == robot_emit(s1, "position_reached", position_name)
    IN [robot_emit(s2, "movement_completed", position_name) EXCEPT !.ret = True]

\* _move_real_robot: movement_steps + 1 sleeps, one after the other.
_move_real_robot(s, position_name, step) ==
    IF step > MovementSteps THEN RobotInterface_move_finish(s, position_name)
    ELSE [s EXCEPT !.susp = [op |-> "move_to_position", pc |-> "step_sleep",
                             name |-> position_name, step |-> step]]

\* _move_simulated_robot: one sleep.
_move_simulated_robot(s, position_name) ==
    [s EXCEPT !.susp = [op |-> "move_to_position", pc |-> "basic_sleep",
                        name |-> position_name]]

\* Faulty variant: the movement is announced before the name is looked up.
RobotInterface_move_to_position_late_lookup(s, position_name) ==
    IF ~s.is_connected THEN [s EXCEPT !.ret = False]
    ELSE IF s.is_moving THEN [s EXCEPT !.ret = False]
    ELSE LET s1 == robot_emit([s EXCEPT !.is_moving = TRUE,
                                        !.target_position = position_name],
                              "movement_started", position_name)
         IN IF position_name \notin DOMAIN s.saved_positions
            THEN [s1 EXCEPT !.ret = False]
            ELSE IF uses_lerobot(s1) THEN _move_real_robot(s1, position_name, 0)
            ELSE _move_simulated_robot(s1, position_name)

RobotInterface_move_to_position(s, position_name) ==
    IF ~s.is_connected THEN [s EXCEPT !.ret = False]
    ELSE IF s.is_moving THEN [s EXCEPT !.ret = False]
    ELSE IF position_name \notin DOMAIN s.saved_positions THEN [s EXCEPT !.ret = False]
    ELSE LET s1 == robot_emit([s EXCEPT !.is_moving = TRUE,
                                        !.target_position = position_name],
                              "movement_started", position_name)
         IN IF uses_lerobot(s1) THEN _move_real_robot(s1, position_name, 0)
            ELSE _move_simulated_robot(s1, position_name)

RobotInterface_move_resume(s, t) ==
    IF t.pc = "step_sleep" THEN _move_real_robot(s, t.name, t.step + 1)
    ELSE RobotInterface_move_finish(s, t.name)

\* nod from turn number `remaining` (counting down) on: one sleep a turn.
RobotInterface_nod_turn(s, remaining) ==
    IF remaining = 0 THEN _nod_finish(s)
    ELSE [s EXCEPT !.susp = [op |-> "nod", pc |-> "basic_sleep",
                             original_pos |-> s.current_position,
                             remaining |-> remaining]]

RobotInterface_nod(s, times) ==
    IF ~s.is_connected THEN [s EXCEPT !.ret = False]
    ELSE LET s1 == IF ~s.torque_enabled THEN [enable_torque(s) EXCEPT !.ret = None]
                   ELSE s
         IN RobotInterface_nod_turn(robot_emit(s1, "movement_started", "nod"), times)

RobotInterface_nod_resume(s, t) == RobotInterface_nod_turn(s, t.remaining - 1)

(***************************************************************************)
(* The robot interface on its event loop.                                  *)
(***************************************************************************)
ENHANCED == "EnhancedRobotInterface"
BASIC == "RobotInterface"

\* Coroutines suspended at one time.
MaxTasks == 2

Times == {1}

\* wrist_flex setpoints the arm holds when a nod is asked for.
NodStarts == {0, -1024}

\* No coroutine: the step is a new call.
NoTask == [k |-> NoSusp, stopped |-> FALSE]

\* The motors' position when the program starts.
InitialHardwarePosition == [m \in follower_motors |-> 0]

\* What the machine may provide: whether the adapter and its configuration
\* can be built, whether the lerobot hardware package can be imported.
Installations ==
    {[adapter_builds |-> FALSE, driver_installed |-> FALSE],
     [adapter_builds |-> TRUE, driver_installed |-> FALSE],
     [adapter_builds |-> TRUE, driver_installed |-> TRUE]}

\* The fields every interface starts with.
FieldsInit ==
    /\ is_connected = FALSE
    /\ current_position = "unknown"
    /\ target_position = None
    /\ is_moving = FALSE
    /\ torque_enabled = FALSE
    /\ lerobot_robot = NoRobot
    /\ hw_position = InitialHardwarePosition
    /\ tasks = EmptyBag
    /\ robot_events = <<>>
    /\ adapter_io = <<>>
    /\ robot_call = [op |-> "__init__", arg |-> None, task |-> NoTask]
    /\ robot_ret = None

\* EnhancedRobotInterface.__init__ in a process where the import of the
\* LeRobot integration succeeded (LEROBOT_AVAILABLE) or failed;
\* storage_answers: the answers robot_positions.json can give to a save.
EnhancedInitOn(storage_answers) ==
    /\ interface = ENHANCED
    /\ LEROBOT_AVAILABLE \in BOOLEAN
    /\ installation \in Installations
    /\ ~LEROBOT_AVAILABLE => ~installation.adapter_builds
    /\ FieldsInit
    /\ use_lerobot = LEROBOT_AVAILABLE
    /\ \E file \in StoredDocuments, storage \in storage_answers :
        \E r \in {load_positions([saved_positions |-> EmptyPosition,
                                  positions_file |-> file],
                                 LEROBOT_AVAILABLE, storage)} :
            /\ saved_positions = r.saved_positions
            /\ positions_file = r.positions_file

\* The interface built where robot_positions.json can be written.
EnhancedInit == EnhancedInitOn({"written"})

\* RobotInterface.__init__: _check_lerobot_availability tries the import of
\* the lerobot package.  LEROBOT_AVAILABLE belongs to the other module.
BasicInit ==
    /\ interface = BASIC
    /\ LEROBOT_AVAILABLE = FALSE
    /\ installation \in {i \in Installations : i.adapter_builds}
    /\ FieldsInit
    /\ use_lerobot = installation.driver_installed
    /\ saved_positions = DEFAULT_POSITIONS
    /\ positions_file = Absent

RobotInit == EnhancedInit \/ BasicInit

\* A system built without a robot interface (AppSettings.ENABLE_ROBOT off).
RobotAbsent ==
    /\ interface = None
    /\ LEROBOT_AVAILABLE = FALSE
    /\ installation = [adapter_builds |-> FALSE, driver_installed |-> FALSE]
    /\ FieldsInit
    /\ use_lerobot = FALSE
    /\ saved_positions = EmptyPosition
    /\ positions_file = Absent

\* The fields after a step that leaves r; prior is the task that ran (NoTask
\* for a new call).  A coroutine that suspended stays among the tasks.
RobotApplyCall(r0, call) ==
    /\ robot_call' = call
    /\ \E prior \in {call.task}, r \in {r0} :
        /\ r.susp.op # "none" /\ prior = NoTask => BagCardinality(tasks) < MaxTasks
        /\ is_connected' = r.is_connected
        /\ current_position' = r.current_position
        /\ target_position' = r.target_position
        /\ is_moving' = r.is_moving
        /\ torque_enabled' = r.torque_enabled
        /\ lerobot_robot' = r.lerobot_robot
        /\ use_lerobot' = r.use_lerobot
        /\ saved_positions' = r.saved_positions
        /\ positions_file' = r.positions_file
        /\ hw_position' = r.hw_position
        /\ robot_events' = r.events
        /\ adapter_io' = r.io
        /\ robot_ret' = r.ret
        /\ tasks' = LET rest == IF prior = NoTask THEN tasks
                                ELSE tasks (-) SetToBag({prior})
                    IN IF r.susp.op = "none" THEN rest
                       ELSE rest (+) SetToBag({[k |-> r.susp, stopped |-> prior.stopped]})
    /\ UNCHANGED <<interface, LEROBOT_AVAILABLE, installation, stage_vars, calc_vars>>

RobotApply(r0, op, arg, prior) ==
    RobotApplyCall(r0, [op |-> op, arg |-> arg, task |-> prior])

\* What a connection attempt can meet on this installation ("untried": the
\* interface does not try the adapter).
ConnectOutcomes ==
    IF interface = ENHANCED /\ ~use_lerobot THEN {"untried"}
    ELSE IF interface = ENHANCED /\ ~installation.adapter_builds THEN {"raises"}
    ELSE IF ~installation.driver_installed THEN {"no_driver"}
    ELSE {"bus_error", "ok"}

Connect ==
    \E outcome \in ConnectOutcomes :
        RobotApply(IF interface = ENHANCED THEN connect(RIState, outcome)
                   ELSE RobotInterface_connect(RIState, outcome),
                   "connect", outcome, NoTask)

\* The sleep of _connect_basic or _connect_simulated_robot is over.
ConnectResume ==
    \E t \in BagToSet(tasks) :
        /\ t.k.op = "connect"
        /\ RobotApply(_connect_basic_wake(RIState), "connect_resume", None, t)

\* Whether the disconnect() of the adapter returns: a choice where the
\* adapter is the one of the lerobot package.
DisconnectAnswers ==
    IF interface = BASIC /\ is_connected /\ use_lerobot /\ lerobot_robot.exists
    THEN BOOLEAN ELSE {TRUE}

Disconnect ==
    /\ interface # None
    /\ \E adapter_ok \in DisconnectAnswers :
        RobotApply(IF interface = ENHANCED THEN disconnect(RIState)
                   ELSE RobotInterface_disconnect(RIState, adapter_ok),
                   "disconnect", None, NoTask)

EnableTorque ==
    /\ interface # None
    /\ RobotApply(IF interface = ENHANCED THEN enable_torque(RIState)
               ELSE RobotInterface_enable_torque(RIState),
               "enable_torque", None, NoTask)

DisableTorque ==
    /\ interface # None
    /\ RobotApply(IF interface = ENHANCED THEN disable_torque(RIState)
               ELSE RobotInterface_disable_torque(RIState),
               "disable_torque", None, NoTask)

\* Whether the hardware answers in a step: a choice wherever the adapter
\* talks to a real arm.
HardwareAnswers ==
    IF interface = ENHANCED /\ is_connected /\ use_lerobot
       /\ lerobot_robot.is_connected /\ ~lerobot_robot.mock_mode
    THEN BOOLEAN ELSE {TRUE}

\* The duration matters where the adapter is used; elsewhere it only sets
\* the length of a sleep.
DurationChoices == IF interface = ENHANCED /\ use_lerobot THEN Durations ELSE {0}

\* move_to_position is asked for with one of the names; the hardware
\* answers all accesses of the step alike.
MoveToPositionAmong(names) ==
    \E position_name \in names, duration \in DurationChoices,
       hw_ok \in HardwareAnswers :
        RobotApply(IF interface = ENHANCED
                   THEN move_to_position(RIState, position_name, duration,
                                         LEROBOT_AVAILABLE, hw_ok,
                                         [i \in 1..(duration + 1) |-> hw_ok])
                   ELSE RobotInterface_move_to_position(RIState, position_name),
                   "move_to_position", position_name, NoTask)

MoveToPosition ==
    /\ interface # None
    /\ MoveToPositionAmong(MoveNames)

\* A sleep of a suspended move_to_position is over.
MoveResume ==
    \E t \in BagToSet(tasks) :
        /\ t.k.op = "move_to_position"
        /\ RobotApply(IF interface = ENHANCED THEN move_resume(RIState, t.k)
                      ELSE RobotInterface_move_resume(RIState, t.k),
                      "move_resume", t.k.name, t)

\* The position the adapter would report.
ReportedPosition ==
    IF lerobot_robot.mock_mode THEN lerobot_robot.mock_positions ELSE hw_position

\* nod is asked for while no nod is under way and the wrist of the arm is
\* at one of starts.
NodFrom(starts) ==
    /\ \A t \in BagToSet(tasks) : t.k.op # "nod"
    /\ interface = ENHANCED /\ "wrist_flex" \in DOMAIN ReportedPosition
        => ReportedPosition["wrist_flex"] \in starts
    /\ \E times \in Times, hw_ok \in HardwareAnswers :
        RobotApply(IF interface = ENHANCED
                   THEN nod(RIState, times, LEROBOT_AVAILABLE, hw_ok)
                   ELSE RobotInterface_nod(RIState, times),
                   "nod", None, NoTask)

\* nod with the wrist where a preset of MoveNames or the start of the
\* program left it.
Nod ==
    /\ interface # None
    /\ NodFrom(NodStarts)

\* A sleep of a suspended nod is over.
NodResume ==
    \E t \in BagToSet(tasks), hw_ok \in HardwareAnswers :
        /\ t.k.op = "nod"
        /\ RobotApply(IF interface = ENHANCED
                      THEN nod_resume(RIState, t.k, LEROBOT_AVAILABLE, hw_ok)
                      ELSE RobotInterface_nod_resume(RIState, t.k),
                      "nod_resume", None, t)

\* The tasks of the bag b with the movements among them marked as met by
\* emergency_stop.
MarkStopped(b) ==
    LET marked == {IF t.k.op \in {"move_to_position", "nod"}
                   THEN [t EXCEPT !.stopped = TRUE] ELSE t : t \in BagToSet(b)}
    IN [m \in marked |->
           IF m.stopped
           THEN CopiesIn([m EXCEPT !.stopped = FALSE], b) + CopiesIn(m, b)
           ELSE CopiesIn(m, b)]

\* emergency_stop; the movements it finds suspended are marked (stopped is
\* not a field of the program, it records that the call came in between).
EmergencyStop ==
    /\ robot_call' = [op |-> "emergency_stop", arg |-> None, task |-> NoTask]
    /\ \E r \in {IF interface = ENHANCED THEN emergency_stop(RIState)
                 ELSE RobotInterface_emergency_stop(RIState)} :
        /\ is_connected' = r.is_connected
        /\ current_position' = r.current_position
        /\ target_position' = r.target_position
        /\ is_moving' = r.is_moving
        /\ torque_enabled' = r.torque_enabled
        /\ robot_events' = r.events
        /\ adapter_io' = r.io
        /\ robot_ret' = r.ret
    /\ tasks' = MarkStopped(tasks)
    /\ UNCHANGED <<interface, LEROBOT_AVAILABLE, installation, lerobot_robot,
                   use_lerobot, saved_positions, positions_file, hw_position,
                   stage_vars, calc_vars>>

Next ==
    \/ Connect
    \/ ConnectResume
    \/ Disconnect
    \/ EnableTorque
    \/ DisableTorque
    \/ MoveToPosition
    \/ MoveResume
    \/ Nod
    \/ NodResume
    \/ EmergencyStop

\* No helper function has been called on its own.
NoHelperCall ==
    /\ fn_call = [op |-> "none"]
    /\ fn_ret = None

(***************************************************************************)
(* StageController: the state after __init__ and one action per call.      *)
(***************************************************************************)
StageInit ==
    /\ current_stage = DEFAULT_STAGE
    /\ previous_stage = None
    /\ stage_data = [n \in {} |-> {}]
    /\ idle_timer_active = FALSE
    /\ sc_running = FALSE
    /\ stage_events = <<>>
    /\ stage_call = [op |-> "__init__", arg |-> None, data |-> {}]
    /\ stage_ret = None

\* The fields after a call: s is the record the call leaves, computed once.
StageApply(s, op, arg, data) ==
    /\ stage_call' = [op |-> op, arg |-> arg, data |-> data]
    /\ \E r \in {s} :
        /\ current_stage' = r.current_stage
        /\ previous_stage' = r.previous_stage
        /\ stage_data' = r.stage_data
        /\ idle_timer_active' = r.idle_timer_active
        /\ stage_events' = r.events
        /\ stage_ret' = r.ret
    /\ UNCHANGED <<robot_vars, calc_vars>>

StageStart ==
    /\ StageApply(start(SCState), "start", None, {})
    /\ sc_running' = TRUE

StageStop ==
    /\ StageApply(stop(SCState), "stop", None, {})
    /\ sc_running' = FALSE

ChangeStage ==
    \E new_stage \in valid_stages \cup InvalidStageNames, kwargs \in KwargsChoices :
        /\ kwargs # {} => new_stage \in DataTargets \cup InvalidStageNames
        /\ StageApply(change_stage(SCState, new_stage, kwargs),
                      "change_stage", new_stage, kwargs)
        /\ UNCHANGED sc_running

GoBack ==
    /\ StageApply(go_back(SCState), "go_back", None, {})
    /\ UNCHANGED sc_running

GoToRest ==
    /\ StageApply(go_to_rest(SCState), "go_to_rest", None, {})
    /\ UNCHANGED sc_running

\* QTimer.timeout: fires only while the timer is active.
OnIdleTimeout ==
    /\ idle_timer_active
    /\ StageApply(_on_idle_timeout(SCState), "_on_idle_timeout", None, {})
    /\ UNCHANGED sc_running

OnUserActivity ==
    /\ StageApply(on_user_activity(SCState), "on_user_activity", None, {})
    /\ UNCHANGED sc_running

SetStageData ==
    \E stage \in DataTargets \cup {None}, value \in 1..2 :
        /\ stage = None => current_stage \in DataTargets
        /\ StageApply(set_stage_data(SCState, "item", value, stage),
                      "set_stage_data", stage, {<<"item", value>>})
        /\ UNCHANGED sc_running

ClearStageData ==
    \E stage \in DataTargets \cup {None} :
        /\ stage = None => current_stage \in DataTargets
        /\ StageApply(clear_stage_data(SCState, stage),
                      "clear_stage_data", stage, {})
        /\ UNCHANGED sc_running

StageNext ==
    \/ StageStart
    \/ StageStop
    \/ ChangeStage
    \/ GoBack
    \/ GoToRest
    \/ OnIdleTimeout
    \/ OnUserActivity
    \/ SetStageData
    \/ ClearStageData

\* A stage controller in a system without a robot interface.
StageAloneInit == StageInit /\ RobotAbsent /\ NoHelperCall

StageSpec == StageAloneInit /\ [][StageNext]_vars

\* The Qt event loop delivers the timeout of a timer that stays active.
FairStageSpec == StageSpec /\ WF_vars(OnIdleTimeout)

(***************************************************************************)
(* The stage controller with per-stage hooks that may raise.               *)
(***************************************************************************)
\* Whether a hook returns.
HookAnswers == BOOLEAN

ChangeStageHooks ==
    \E new_stage \in valid_stages \cup InvalidStageNames, kwargs \in KwargsChoices,
       exit_ok \in HookAnswers, enter_ok \in HookAnswers :
        /\ kwargs # {} => new_stage \in DataTargets \cup InvalidStageNames
        /\ StageApply(change_stage_hooks(SCState, new_stage, kwargs, exit_ok, enter_ok),
                      "change_stage", new_stage, kwargs)
        /\ UNCHANGED sc_running

HookNext ==
    \/ StageStart
    \/ ChangeStageHooks
    \/ GoBack
    \/ SetStageData
    \/ ClearStageData

HookSpec == StageAloneInit /\ [][HookNext]_vars

(***************************************************************************)
(* The robot interface beside a stage controller nobody calls.             *)
(***************************************************************************)
Init == StageInit /\ RobotInit /\ NoHelperCall

Spec == Init /\ [][Next]_vars

(***************************************************************************)
(* Movements under an event loop that ends every sleep.                    *)
(***************************************************************************)
\* Preset names the movements are asked for: "rest" is in every table.
LiveNames == {"rest", "nowhere"}

\* The suspended move_to_position coroutines there can be: in the sleep of
\* _move_basic or _move_simulated_robot, or in one of the sleeps of
\* _move_real_robot.
MoveTasks ==
    {[k |-> [op |-> "move_to_position", pc |-> "basic_sleep", name |-> name],
      stopped |-> stopped] : name \in LiveNames, stopped \in BOOLEAN}
    \cup
    {[k |-> [op |-> "move_to_position", pc |-> "step_sleep", name |-> name,
             step |-> step],
      stopped |-> stopped] :
        name \in LiveNames, step \in 0..MovementSteps, stopped \in BOOLEAN}

\* The sleep of the suspended movement t is over.
MoveResumeOf(t) ==
    /\ t \in BagToSet(tasks)
    /\ RobotApply(IF interface = ENHANCED THEN move_resume(RIState, t.k)
                  ELSE RobotInterface_move_resume(RIState, t.k),
                  "move_resume", t.k.name, t)

LiveMove ==
    /\ interface # None
    /\ MoveToPositionAmong(LiveNames)

LiveNext ==
    \/ Connect
    \/ ConnectResume
    \/ Disconnect
    \/ LiveMove
    \/ MoveResume
    \/ EmergencyStop

\* asyncio.sleep returns after its delay: no suspended movement waits for
\* ever.
LiveSpec ==
    /\ Init
    /\ [][LiveNext]_vars
    /\ \A t \in MoveTasks : WF_vars(MoveResumeOf(t))

(***************************************************************************)
(* The helper functions of robot_utils.py and manipulator.py called on     *)
(* their own, on every argument of a small set.                            *)
(***************************************************************************)
\* Arguments of interpolate_positions: positions over some of two joints.
CalcJoints == {"shoulder_pan", "shoulder_lift"}
CalcSetpoints == {-1024, 0, 100}
CalcPositions == UNION {[J -> CalcSetpoints] : J \in SUBSET CalcJoints}
MaxSteps == 3

\* Arguments of ensure_safe_goal_position: tensors over the two joints and
\* a bound that is not negative.
ClampSetpoints == {-2, 0, 1, 3}
ClampPositions == [CalcJoints -> ClampSetpoints]
MaxRelativeTarget == 2

Interpolate ==
    \E start_pos \in CalcPositions, end_pos \in CalcPositions, steps \in 1..MaxSteps :
        /\ fn_call' = [op |-> "interpolate_positions", start_pos |-> start_pos,
                       end_pos |-> end_pos, steps |-> steps]
        /\ fn_ret' = interpolate_positions(start_pos, end_pos, steps)
        /\ UNCHANGED <<stage_vars, robot_vars>>

EnsureSafeGoal ==
    \E goal_pos \in ClampPositions, present_pos \in ClampPositions,
       max_relative_target \in 0..MaxRelativeTarget :
        /\ fn_call' = [op |-> "ensure_safe_goal_position", goal_pos |-> goal_pos,
                       present_pos |-> present_pos,
                       max_relative_target |-> max_relative_target]
        /\ fn_ret' = ensure_safe_goal_position(goal_pos, present_pos,
                                               max_relative_target)
        /\ UNCHANGED <<stage_vars, robot_vars>>

HelperNext ==
    \/ Interpolate
    \/ EnsureSafeGoal

HelperInit == StageInit /\ RobotAbsent /\ NoHelperCall

HelperSpec == HelperInit /\ [][HelperNext]_vars

(***************************************************************************)
(* The preset table of EnhancedRobotInterface and robot_positions.json,    *)
(* over runs of the program.                                               *)
(***************************************************************************)
\* Preset names callers save, delete and move to.
StoreNames == {"rest", "home"}

\* The answers of robot_positions.json to the save of a step.
StorageAnswers == {"written", "refused", "torn"}

SaveCurrentPosition ==
    /\ interface = ENHANCED
    /\ \E position_name \in StoreNames, hw_ok \in HardwareAnswers,
          storage \in StorageAnswers :
        RobotApply(save_current_position(RIState, position_name, hw_ok, storage),
                   "save_current_position", position_name, NoTask)

DeletePosition ==
    /\ interface = ENHANCED
    /\ \E position_name \in StoreNames, storage \in StorageAnswers :
        RobotApply(delete_position(RIState, position_name, storage),
                   "delete_position", position_name, NoTask)

StoreMove ==
    /\ interface = ENHANCED
    /\ MoveToPositionAmong(StoreNames)

\* The program ends and is started again on the same machine: __init__ runs
\* on what the last run left in robot_positions.json; the arm stays where it
\* is and the coroutines of the last run are gone.
Restart ==
    /\ robot_call' = [op |-> "__init__", arg |-> None, task |-> NoTask]
    /\ \E storage \in StorageAnswers :
        \E r \in {load_positions([saved_positions |-> EmptyPosition,
                                  positions_file |-> positions_file],
                                 LEROBOT_AVAILABLE, storage)} :
            /\ saved_positions' = r.saved_positions
            /\ positions_file' = r.positions_file
    /\ is_connected' = FALSE
    /\ current_position' = "unknown"
    /\ target_position' = None
    /\ is_moving' = FALSE
    /\ torque_enabled' = FALSE
    /\ lerobot_robot' = NoRobot
    /\ use_lerobot' = LEROBOT_AVAILABLE
    /\ tasks' = EmptyBag
    /\ robot_events' = <<>>
    /\ adapter_io' = <<>>
    /\ robot_ret' = None
    /\ UNCHANGED <<interface, LEROBOT_AVAILABLE, installation, hw_position,
                   stage_vars, calc_vars>>

StoreNext ==
    \/ Connect
    \/ ConnectResume
    \/ StoreMove
    \/ MoveResume
    \/ SaveCurrentPosition
    \/ DeletePosition
    \/ Restart

StoreInit == StageInit /\ EnhancedInitOn(StorageAnswers) /\ NoHelperCall

StoreSpec == StoreInit /\ [][StoreNext]_vars

(***************************************************************************)
(* The movements of EnhancedRobotInterface that write to the adapter:      *)
(* move_to_position, nod and track_gesture.                                *)
(***************************************************************************)
\* Presets the arm is sent to before a gesture.
GestureMoveNames == {"rest", "far", "high"}

\* wrist_flex setpoints the arm holds when a nod is asked for.
GestureNodStarts == {0, 2000}

\* Screen coordinates of a tracked hand, in tenths of the screen.
ScreenCoordinates == {0, 5, 10}

\* shoulder_pan and shoulder_lift setpoints the arm holds when a hand is
\* tracked: where a preset or the start of the program left them.
TrackStarts == {-1024, 0, 2000}

GestureMove ==
    /\ interface = ENHANCED
    /\ MoveToPositionAmong(GestureMoveNames)

GestureNod ==
    /\ interface = ENHANCED
    /\ NodFrom(GestureNodStarts)

TrackGesture ==
    /\ interface = ENHANCED
    /\ \A joint \in {"shoulder_pan", "shoulder_lift"} :
        joint \in DOMAIN ReportedPosition => ReportedPosition[joint] \in TrackStarts
    /\ \E x \in ScreenCoordinates, y \in ScreenCoordinates, hw_ok \in HardwareAnswers :
        RobotApply(track_gesture(RIState, x, y, hw_ok), "track_gesture", None, NoTask)

GestureNext ==
    \/ Connect
    \/ ConnectResume
    \/ EnableTorque
    \/ GestureMove
    \/ MoveResume
    \/ GestureNod
    \/ NodResume
    \/ TrackGesture

GestureInit == StageInit /\ EnhancedInit /\ NoHelperCall

GestureSpec == GestureInit /\ [][GestureNext]_vars

(***************************************************************************)
(* The stepped movement of EnhancedRobotInterface, with a hardware that    *)
(* answers each write of a movement on its own.                            *)
(***************************************************************************)
\* Presets the arm is sent to, one after the other.
SteppedNames == {"rest", "V", "high"}

\* The arm is where the start of the program or the last write of a
\* movement to one of the presets left it.
AtRest ==
    \/ ReportedPosition = InitialHardwarePosition
    \/ \E name \in SteppedNames \cap DOMAIN saved_positions :
        \A joint \in DOMAIN saved_positions[name] \cap DOMAIN ReportedPosition :
            ReportedPosition[joint] = saved_positions[name][joint]

\* move_to_position is asked for; a stepped movement (duration > 0) is asked
\* for while the arm is at rest.
SteppedMove ==
    /\ interface = ENHANCED
    /\ \E position_name \in SteppedNames, duration \in DurationChoices,
          hw_ok \in HardwareAnswers :
        \E write_ok \in [1..(duration + 1) -> HardwareAnswers] :
            /\ duration > 0 => AtRest
            /\ RobotApplyCall(move_to_position(RIState, position_name, duration,
                                            LEROBOT_AVAILABLE, hw_ok, write_ok),
                           [op |-> "move_to_position", arg |-> position_name,
                            task |-> NoTask, duration |-> duration,
                            hw_ok |-> hw_ok, write_ok |-> write_ok])

MoveNext ==
    \/ Connect
    \/ ConnectResume
    \/ SteppedMove
    \/ MoveResume

MoveInit == StageInit /\ EnhancedInit /\ NoHelperCall

MoveSpec == MoveInit /\ [][MoveNext]_vars

(***************************************************************************)
(* A ManipulatorRobot built by a caller of its own, with or without        *)
(* config.max_relative_target, and moved by smooth_move_to_position.       *)
(***************************************************************************)
\* Joints and setpoints of the targets.
AdapterJoints == {"shoulder_pan", "shoulder_lift"}
AdapterSetpoints == {-4, 0, 4}
AdapterTargets == [AdapterJoints -> AdapterSetpoints]

\* steps arguments: 1 .. AdapterSteps.
AdapterSteps == 2

\* ManipulatorRobot(config), not yet connected; no interface is built.
AdapterInit ==
    /\ StageInit
    /\ NoHelperCall
    /\ interface = None
    /\ LEROBOT_AVAILABLE = TRUE
    /\ installation \in {i \in Installations : i.adapter_builds}
    /\ is_connected = FALSE
    /\ current_position = "unknown"
    /\ target_position = None
    /\ is_moving = FALSE
    /\ torque_enabled = FALSE
    /\ lerobot_robot \in {[new_manipulator EXCEPT !.max_relative_target = m] :
                              m \in {<<>>, <<MaxRelativeTarget>>}}
    /\ use_lerobot = TRUE
    /\ saved_positions = EmptyPosition
    /\ positions_file = Absent
    /\ hw_position = InitialHardwarePosition
    /\ tasks = EmptyBag
    /\ robot_events = <<>>
    /\ adapter_io = <<>>
    /\ robot_call = [op |-> "__init__", arg |-> None, task |-> NoTask]
    /\ robot_ret = None

\* Whether the arm answers in a step.
ArmAnswers ==
    IF lerobot_robot.is_connected /\ ~lerobot_robot.mock_mode THEN BOOLEAN ELSE {TRUE}

\* robot.connect()
AdapterConnect ==
    /\ interface = None
    /\ \E c \in {manipulator_connect(lerobot_robot, installation.driver_installed, TRUE)} :
        RobotApply([RIState EXCEPT !.lerobot_robot = c.robot,
                                   !.ret = IF c.ok THEN True ELSE False],
                   "connect", None, NoTask)

\* smooth_move_to_position(robot, target_positions, steps)
SmoothMove ==
    /\ interface = None
    /\ \E target_positions \in AdapterTargets, steps \in 1..AdapterSteps,
          hw_ok \in ArmAnswers :
        \E r \in {smooth_move_to_position(RIState, target_positions, steps, hw_ok,
                                          [i \in 1..(steps + 1) |-> hw_ok])} :
            RobotApplyCall([r EXCEPT !.ret = IF r.ok THEN True ELSE False],
                           [op |-> "smooth_move_to_position", arg |-> target_positions,
                            task |-> NoTask, steps |-> steps, hw_ok |-> hw_ok])

AdapterNext ==
    \/ AdapterConnect
    \/ SmoothMove

AdapterSpec == AdapterInit /\ [][AdapterNext]_vars

(***************************************************************************)
(* Properties of the robot interface.                                      *)
(***************************************************************************)
\* A move_to_position execution between its movement_started and its
\* completion: a suspended call, or the one a suspended nod is waiting in.
ExecutesMove(t) ==
    t.k.op = "move_to_position" \/ (t.k.op = "nod" /\ t.k.pc = "in_move")

MovingTasks == {t \in BagToSet(tasks) : ExecutesMove(t)}

RECURSIVE SumCopies(_)
SumCopies(S) ==
    IF S = {} THEN 0
    ELSE LET t == CHOOSE x \in S : TRUE
         IN CopiesIn(t, tasks) + SumCopies(S \ {t})

MovementsInFlight == SumCopies(MovingTasks)

EmitsIn(events, sig) == \E i \in 1..Len(events) : events[i].sig = sig

WritesIn(io) == \E i \in 1..Len(io) : io[i].op = "write"

\* C1: at no time are two move_to_position executions between their
\* movement_started and their completion.
C1_AtMostOneMovement == MovementsInFlight <= 1

\* C2: a move_to_position call made while is_moving is true returns False at
\* once and is not queued; target_position, is_moving and current_position
\* stay as they were and no movement_started is emitted.
C2_BusyRejected ==
    [][robot_call'.op = "move_to_position" /\ is_moving
        => /\ robot_ret' = False
           /\ tasks' = tasks
           /\ target_position' = target_position
           /\ is_moving' = is_moving
           /\ current_position' = current_position
           /\ ~EmitsIn(robot_events', "movement_started")]_vars

\* A call for another known preset has just been turned down while a
\* movement to target_position is in flight.
C2_Witness ==
    /\ robot_call.op = "move_to_position"
    /\ robot_ret = False
    /\ is_connected /\ is_moving
    /\ MovementsInFlight = 1
    /\ robot_call.arg \in DOMAIN saved_positions
    /\ target_position \in DOMAIN saved_positions
    /\ robot_call.arg # target_position

\* A preset of the table in which a joint the limit table lists is below
\* its minimum or above its maximum.
Unsafe(position_name) ==
    /\ position_name \in DOMAIN saved_positions
    /\ \E joint \in DOMAIN saved_positions[position_name] \cap DOMAIN get_so101_joint_limits :
        \/ saved_positions[position_name][joint] < get_so101_joint_limits[joint][1]
        \/ saved_positions[position_name][joint] > get_so101_joint_limits[joint][2]

\* C3: a move_to_position call of the EnhancedRobotInterface for a preset
\* with a listed joint outside its range returns False; the adapter
\* receives no read and no write, is_moving and target_position stay as they
\* were and no movement_started is emitted.
C3_UnsafeRejected ==
    [][robot_call'.op = "move_to_position" /\ interface = ENHANCED
       /\ Unsafe(robot_call'.arg)
        => /\ robot_ret' = False
           /\ adapter_io' = <<>>
           /\ tasks' = tasks
           /\ is_moving' = is_moving
           /\ target_position' = target_position
           /\ UNCHANGED <<lerobot_robot, hw_position>>
           /\ ~EmitsIn(robot_events', "movement_started")]_vars

\* An idle, connected interface with a connected adapter has just turned
\* down a preset that leaves a joint's range.
C3_Witness ==
    /\ interface = ENHANCED
    /\ robot_call.op = "move_to_position"
    /\ Unsafe(robot_call.arg)
    /\ robot_ret = False
    /\ is_connected /\ ~is_moving /\ target_position = None
    /\ use_lerobot /\ lerobot_robot.is_connected

\* C4: when the real adapter cannot connect (driver missing or bus error),
\* connect() of the interface still ends connected, on the mock adapter, and
\* returns True.
C4_ConnectFallsBack ==
    [][(/\ robot_call'.op = "connect"
        /\ interface = ENHANCED /\ use_lerobot
        /\ robot_call'.arg \in {"no_driver", "bus_error"})
        => /\ robot_ret' = True
           /\ is_connected'
           /\ lerobot_robot'.mock_mode]_vars

\* A step of a movement that emergency_stop met while it was suspended.
StoppedMovementStep ==
    /\ robot_call'.op \in {"move_resume", "nod_resume"}
    /\ robot_call'.task.stopped

\* C5: emergency_stop leaves is_moving and torque_enabled false and what the
\* arm was sent as it is; a movement that was in flight then sends no
\* further write to the adapter.
C5_StopEndsWrites ==
    [][/\ robot_call'.op = "emergency_stop"
           => ~is_moving' /\ ~torque_enabled' /\ UNCHANGED <<lerobot_robot, hw_position>>
       /\ StoppedMovementStep => ~WritesIn(adapter_io')]_vars

(***************************************************************************)
(* Properties of the StageController.                                      *)
(***************************************************************************)
StageFieldsUnchanged ==
    /\ current_stage' = current_stage
    /\ previous_stage' = previous_stage
    /\ stage_data' = stage_data
    /\ idle_timer_active' = idle_timer_active

\* C6: current_stage is always a member of the closed stage set, and a
\* change_stage call with a name outside the set returns False, leaves
\* current_stage, previous_stage, the stage data and the idle timer as they
\* were and emits no signal.
C6_ClosedStageSet ==
    /\ [](current_stage \in valid_stages)
    /\ [][(stage_call'.op = "change_stage" /\ stage_call'.arg \notin valid_stages)
            => (/\ stage_ret' = False
                /\ StageFieldsUnchanged
                /\ stage_events' = <<>>)]_vars

C6_Witness ==
    /\ stage_call.op = "change_stage"
    /\ stage_call.arg \in InvalidStageNames
    /\ stage_call.data # {}
    /\ stage_ret = False
    /\ current_stage = TRACKING_MODE
    /\ idle_timer_active

\* C7: change_stage to the stage that is already current returns True and
\* changes nothing: no signal is emitted and current_stage, previous_stage,
\* the stage data and the idle timer stay as they were.
C7_SameStageNoOp ==
    [][(stage_call'.op = "change_stage" /\ stage_call'.arg = current_stage)
        => (/\ stage_ret' = True
            /\ StageFieldsUnchanged
            /\ stage_events' = <<>>)]_vars

C7_Witness ==
    /\ stage_call.op = "change_stage"
    /\ stage_call.arg = current_stage
    /\ stage_call.data # {}
    /\ stage_ret = True
    /\ stage_events = <<>>
    /\ current_stage = MENU_DETAIL
    /\ MENU_DETAIL \notin DOMAIN stage_data
    /\ idle_timer_active

StageSignal(sig, args, cur, prev, timer) ==
    [sig |-> sig, args |-> args, cur |-> cur, prev |-> prev, timer |-> timer]

\* C8: a successful change_stage from old to new (old # new, new valid)
\* emits stage_exited(old) while old is still current, then assigns
\* previous_stage = old and current_stage = new, then emits
\* stage_entered(new) and stage_changed(old, new), and resets the idle
\* timer last; all of it within the call.
C8_ChangeStageOrder ==
    [][(/\ stage_call'.op = "change_stage"
        /\ stage_call'.arg \in valid_stages
        /\ stage_call'.arg # current_stage)
        => LET old == current_stage
               new == stage_call'.arg
           IN /\ stage_ret' = True
              /\ stage_events' =
                    << StageSignal("stage_exited", <<old>>, old,
                                   previous_stage, idle_timer_active),
                       StageSignal("stage_entered", <<new>>, new,
                                   old, idle_timer_active),
                       StageSignal("stage_changed", <<old, new>>, new,
                                   old, idle_timer_active) >>
              /\ previous_stage' = old
              /\ current_stage' = new
              /\ idle_timer_active' = (new # REST)]_vars

C8_Witness ==
    /\ stage_call.op = "change_stage"
    /\ stage_ret = True
    /\ Len(stage_events) = 3
    /\ stage_events[3].sig = "stage_changed"
    /\ stage_events[3].timer = FALSE
    /\ idle_timer_active
    /\ current_stage = GAME_MODE
    /\ previous_stage = REST

IdleTimeoutStep ==
    /\ idle_timer_active
    /\ stage_call'.op = "_on_idle_timeout"

\* A step in which nothing but the timer acts: no stage change, no user
\* activity, no data edit, no start or stop (every call records its name).
OnlyTimerStep == stage_call'.op = "_on_idle_timeout"

IdleTimeoutForcesRest ==
    [][IdleTimeoutStep
        => (/\ current_stage # REST
            /\ current_stage' = REST
            /\ previous_stage' = current_stage
            /\ idle_timer_active' = FALSE)]_vars

ActsAsChangeStage(new_stage) ==
    \E r \in {change_stage(SCState, new_stage, {})} :
        /\ current_stage' = r.current_stage
        /\ previous_stage' = r.previous_stage
        /\ stage_data' = r.stage_data
        /\ idle_timer_active' = r.idle_timer_active
        /\ stage_events' = r.events
        /\ stage_ret' = r.ret

MoveSignals(events) ==
    LET sel == SelectSeq(events,
                   LAMBDA e : /\ e.sig \in {"movement_started", "position_reached",
                                            "movement_completed"}
                              /\ e.arg # "nod")
    IN [i \in 1..Len(sel) |-> <<sel[i].sig, sel[i].arg>>]

WholeMovement(name) ==
    <<<<"movement_started", name>>, <<"position_reached", name>>,
      <<"movement_completed", name>>>>

\* The fields as a successful move_to_position(name) leaves them.
ReturnedFrom(name) ==
    /\ current_position' = name
    /\ target_position' = None
    /\ ~is_moving'

\* C12: a move_to_position(name) that returns True has emitted
\* movement_started(name), position_reached(name), movement_completed(name),
\* once each and in that order (movement_started in the step that began the
\* call, the other two in the step that ends it), and leaves
\* current_position = name, target_position cleared and is_moving false.
\* The same holds of the call nod makes to go back where it started.
C12_MovementSignals ==
    [][/\ (robot_call'.op = "move_to_position" /\ robot_ret' = True)
           => /\ MoveSignals(robot_events') = WholeMovement(robot_call'.arg)
              /\ ReturnedFrom(robot_call'.arg)
       /\ (robot_call'.op = "move_to_position" /\ robot_ret' = None)
           => MoveSignals(robot_events') = SubSeq(WholeMovement(robot_call'.arg), 1, 1)
       /\ (robot_call'.op = "move_resume" /\ robot_ret' = True)
           => /\ MoveSignals(robot_events') = Tail(WholeMovement(robot_call'.arg))
              /\ ReturnedFrom(robot_call'.arg)
       /\ (robot_call'.op = "move_resume" /\ robot_ret' # True)
           => robot_ret' = None /\ MoveSignals(robot_events') = <<>>
       /\ (robot_call'.op \in {"nod", "nod_resume"}
             /\ EmitsIn(robot_events', "position_reached"))
           => \E name \in DOMAIN saved_positions :
                 /\ MoveSignals(robot_events') \in
                        {WholeMovement(name), Tail(WholeMovement(name))}
                 /\ ReturnedFrom(name)]_vars

\* A move_to_position("V") through the adapter has just returned True after
\* writing to the arm.
C12_Witness ==
    /\ interface = ENHANCED
    /\ robot_call.op = "move_to_position"
    /\ robot_call.arg = "V"
    /\ robot_ret = True
    /\ WritesIn(adapter_io)
    /\ Len(robot_events) = 3
    /\ current_position = "V"

(***************************************************************************)
(* Properties of the helper functions.                                     *)
(***************************************************************************)
\* Two positions with the same joints and the same setpoints.
SamePosition(a, b) ==
    /\ DOMAIN a = DOMAIN b
    /\ \A j \in DOMAIN a : a[j] = b[j]

\* C13: interpolate_positions(start, end, N) returns N + 1 waypoints, the
\* first is start, the last is end, and waypoint i holds for every joint
\* start + (i/N) * (end - start) (rounded down to a setpoint), whatever the
\* joints of start and end.
C13_Interpolation ==
    fn_call.op = "interpolate_positions"
        => /\ Len(fn_ret) = fn_call.steps + 1
           /\ SamePosition(fn_ret[1], fn_call.start_pos)
           /\ SamePosition(fn_ret[fn_call.steps + 1], fn_call.end_pos)
           /\ \A i \in 0..fn_call.steps :
                /\ DOMAIN fn_ret[i + 1] = DOMAIN fn_call.end_pos
                /\ \A j \in DOMAIN fn_call.end_pos :
                    LET d == fn_call.end_pos[j] - fn_call.start_pos[j]
                        got == fn_ret[i + 1][j] - fn_call.start_pos[j]
                    IN /\ fn_call.steps * got <= i * d
                       /\ i * d < fn_call.steps * (got + 1)

Abs(x) == IF x >= 0 THEN x ELSE -x

\* C14: ensure_safe_goal_position(goal, present, M) returns r with
\* |r[J] - present[J]| <= M for every joint J, and r = goal when
\* |goal[J] - present[J]| <= M for every joint J.
C14_SafetyClamp ==
    fn_call.op = "ensure_safe_goal_position"
        => /\ DOMAIN fn_ret = DOMAIN fn_call.goal_pos
           /\ \A j \in DOMAIN fn_ret :
                Abs(fn_ret[j] - fn_call.present_pos[j]) <= fn_call.max_relative_target
           /\ (\A j \in DOMAIN fn_call.goal_pos :
                  Abs(fn_call.goal_pos[j] - fn_call.present_pos[j])
                      <= fn_call.max_relative_target)
               => SamePosition(fn_ret, fn_call.goal_pos)

\* A goal too far above the present position on one joint and too far below
\* it on the other has been clamped on both.
C14_Witness ==
    /\ fn_call.op = "ensure_safe_goal_position"
    /\ fn_call.max_relative_target = 1
    /\ fn_call.goal_pos["shoulder_pan"] - fn_call.present_pos["shoulder_pan"] > 1
    /\ fn_call.goal_pos["shoulder_lift"] - fn_call.present_pos["shoulder_lift"] < -1
    /\ fn_ret["shoulder_pan"] = fn_call.present_pos["shoulder_pan"] + 1
    /\ fn_ret["shoulder_lift"] = fn_call.present_pos["shoulder_lift"] - 1

(***************************************************************************)
(* Properties of the robot interface: disconnect and failures.             *)
(***************************************************************************)
\* The status_changed signals among events, in order.
StatusSignals(events) ==
    LET sel == SelectSeq(events, LAMBDA e : e.sig = "status_changed")
    IN [i \in 1..Len(sel) |-> sel[i].arg]

\* C15: disconnect() of a connected EnhancedRobotInterface emits
\* torque_disabled and then disconnected, drops the adapter and leaves the
\* interface disconnected with the torque off; on a disconnected interface
\* it changes no field and emits nothing, so that a second disconnect()
\* in a row does nothing.
C15_DisconnectIdempotent ==
    [][(robot_call'.op = "disconnect" /\ interface = ENHANCED)
        => /\ ~is_connected'
           /\ is_connected
               => /\ StatusSignals(robot_events') = <<"torque_disabled", "disconnected">>
                  /\ Len(robot_events') = 2
                  /\ ~torque_enabled'
                  /\ lerobot_robot' = NoRobot
           /\ ~is_connected
               => /\ robot_events' = <<>>
                  /\ adapter_io' = <<>>
                  /\ UNCHANGED <<is_connected, current_position, target_position,
                                 is_moving, torque_enabled, lerobot_robot,
                                 use_lerobot, saved_positions, positions_file,
                                 hw_position, tasks>>]_vars

\* An interface that used its adapter and had the torque on when the
\* first signal went out has just been disconnected.
C15_Witness ==
    /\ interface = ENHANCED
    /\ robot_call.op = "disconnect"
    /\ use_lerobot
    /\ Len(robot_events) = 2
    /\ ~is_connected /\ ~torque_enabled
    /\ lerobot_robot = NoRobot

\* C16: a connect, move_to_position or torque call that returns False has
\* emitted error_occurred before it returns.
C16_FailureHasEvent ==
    [][(/\ robot_call'.op \in {"connect", "connect_resume", "move_to_position",
                               "move_resume", "enable_torque", "disable_torque"}
        /\ robot_ret' = False)
        => EmitsIn(robot_events', "error_occurred")]_vars

(***************************************************************************)
(* Properties of the preset table and its file.                            *)
(***************************************************************************)
\* What get_current_positions answers in this state when the hardware
\* answers.
CurrentPositions ==
    IF ~is_connected THEN EmptyPosition
    ELSE IF lerobot_robot.exists /\ use_lerobot THEN ReportedPosition
    ELSE IF current_position \in DOMAIN saved_positions
    THEN saved_positions[current_position]
    ELSE EmptyPosition

\* The step leaves every preset but name as it was.
OthersKept(name) ==
    /\ DOMAIN saved_positions' \ {name} = DOMAIN saved_positions \ {name}
    /\ \A n \in DOMAIN saved_positions \ {name} :
        SamePosition(saved_positions'[n], saved_positions[n])

\* The step leaves robot_positions.json holding the whole table.
Persisted == SamePosition(positions_file', saved_positions')

\* The step saved the position read under name, next to the other presets.
SavedUnder(name) ==
    /\ name \in DOMAIN saved_positions'
    /\ SamePosition(saved_positions'[name], CurrentPositions)
    /\ OthersKept(name)

\* C17: after a save_current_position(name) that returns True the table maps
\* name to the position read at the call, every other preset is as it was,
\* and robot_positions.json holds the whole table.
C17_SaveOverwritesOrInserts ==
    [][(robot_call'.op = "save_current_position" /\ robot_ret' = True)
        => (SavedUnder(robot_call'.arg) /\ Persisted)]_vars

\* The step took name out of the table and left the other presets.
Removed(name) ==
    /\ name \notin DOMAIN saved_positions'
    /\ OthersKept(name)

\* The step is a move_to_position that was turned down before it began.
Rejected ==
    /\ robot_ret' = False
    /\ ~EmitsIn(robot_events', "movement_started")
    /\ adapter_io' = <<>>
    /\ UNCHANGED <<current_position, is_moving, hw_position, tasks>>

\* C18: delete_position(name) takes a preset that is in the table out of it
\* and leaves robot_positions.json holding the table; for a name that is not
\* in the table it changes neither; a move_to_position to a name that is not
\* in the table is turned down.
C18_DeleteRemoves ==
    [][/\ robot_call'.op = "delete_position"
           => IF robot_call'.arg \in DOMAIN saved_positions
              THEN Removed(robot_call'.arg) /\ Persisted
              ELSE UNCHANGED <<saved_positions, positions_file>>
       /\ (robot_call'.op = "move_to_position"
           /\ robot_call'.arg \notin DOMAIN saved_positions) => Rejected]_vars

\* C19: load_positions, run by __init__, on no document (absent or
\* unreadable file) makes the table the built-in default set, with a "rest"
\* preset, and leaves robot_positions.json holding that table; on a document
\* with presets it makes the table that document and writes nothing.
C19_LoadSeedsDefaults ==
    [][robot_call'.op = "__init__"
        => IF DOMAIN positions_file = {}
           THEN /\ saved_positions' \in {create_default_positions,
                                         basic_default_positions}
                /\ "rest" \in DOMAIN saved_positions'
                /\ Persisted
           ELSE /\ SamePosition(saved_positions', positions_file)
                /\ UNCHANGED positions_file]_vars

(***************************************************************************)
(* Properties of the robot interface: the range of what is written.        *)
(***************************************************************************)
\* C20: whatever move_to_position, nod and track_gesture calls have been
\* made, every position a step writes to the adapter keeps each joint of the
\* limit table within that joint's range.
C20_WritesInRange ==
    \A i \in DOMAIN adapter_io :
        adapter_io[i].op = "write"
            => check_position_safety(adapter_io[i].position, get_so101_joint_limits)

(***************************************************************************)
(* Properties of the stepped movement.                                     *)
(***************************************************************************)
\* The positions written to the adapter in a step, in the order of writing.
Written(io) ==
    LET sel == SelectSeq(io, LAMBDA e : e.op = "write")
    IN [i \in 1..Len(sel) |-> sel[i].position]

\* The step is a move_to_position that began a movement on the adapter.
MovesArm ==
    /\ robot_call'.op = "move_to_position"
    /\ EmitsIn(robot_events', "movement_started")
    /\ lerobot_robot.exists /\ use_lerobot

\* The first waypoint whose write the hardware did not answer.
FirstFailure(write_ok) ==
    CHOOSE i \in DOMAIN write_ok :
        ~write_ok[i] /\ \A k \in 1..(i - 1) : write_ok[k]

\* C21: when the write of a waypoint fails in a stepped movement, no later
\* waypoint is written, is_moving is cleared, error_occurred is emitted, and
\* the arm stays where the last write that succeeded left it.
C21_WriteFailureAborts ==
    [][(/\ MovesArm
        /\ robot_call'.duration > 0
        /\ \E i \in DOMAIN robot_call'.write_ok : ~robot_call'.write_ok[i])
        => LET failed == FirstFailure(robot_call'.write_ok)
           IN /\ Len(Written(adapter_io')) = failed
              /\ ~is_moving'
              /\ EmitsIn(robot_events', "error_occurred")
              /\ hw_position' = IF failed = 1 THEN hw_position
                                ELSE position_update(hw_position,
                                                     Written(adapter_io')[failed - 1])]_vars

\* The places in the signals of a step where the writes of the step were
\* made: k for a write made after the k-th signal and before the next.
WrittenAfter(io) ==
    LET sel == SelectSeq(io, LAMBDA e : e.op = "write")
    IN {sel[i].emitted : i \in 1..Len(sel)}

\* The place of the signal sig in the signals of a step.
SignalAt(events, sig) == CHOOSE i \in 1..Len(events) : events[i].sig = sig

\* C22: a move_to_position with N > 0 steps that moves the arm and returns
\* True writes the N + 1 waypoints interpolated from the position read to
\* the preset, in their order and nothing else, after movement_started and
\* before movement_completed.
C22_WaypointsInOrder ==
    [][(MovesArm /\ robot_call'.duration > 0 /\ robot_ret' = True)
        => LET N == robot_call'.duration
               present == IF robot_call'.hw_ok THEN ReportedPosition ELSE EmptyPosition
               path == interpolate_positions(present,
                                             saved_positions[robot_call'.arg], N)
           IN /\ Len(Written(adapter_io')) = N + 1
              /\ \A i \in 1..(N + 1) : SamePosition(Written(adapter_io')[i], path[i])
              /\ \A k \in WrittenAfter(adapter_io') :
                  /\ SignalAt(robot_events', "movement_started") <= k
                  /\ k < SignalAt(robot_events', "movement_completed")]_vars

\* A movement of two steps has written its three waypoints, the second
\* half-way between the first and the last.
C22_Witness ==
    /\ robot_call.op = "move_to_position"
    /\ "duration" \in DOMAIN robot_call
    /\ robot_call.duration = 2
    /\ robot_ret = True
    /\ Len(Written(adapter_io)) = 3
    /\ Written(adapter_io)[1].shoulder_lift = 0
    /\ Written(adapter_io)[2].shoulder_lift = -512
    /\ Written(adapter_io)[3].shoulder_lift = -1024

\* C23: with max_relative_target = M, a smooth_move_to_position that finds
\* the arm answering returns True and its last waypoint, as it is written,
\* is within M of the position read at its start, joint by joint.
C23_ClampedOnce ==
    [][(/\ robot_call'.op = "smooth_move_to_position"
        /\ lerobot_robot.is_connected
        /\ lerobot_robot.max_relative_target # <<>>
        /\ robot_call'.hw_ok)
        => LET last == Written(adapter_io')[Len(Written(adapter_io'))]
           IN /\ robot_ret' = True
              /\ \A joint \in DOMAIN last :
                  Abs(last[joint] - ReportedPosition[joint])
                      <= lerobot_robot.max_relative_target[1]]_vars

(***************************************************************************)
(* Properties of the robot interface: torque, connection and adapter.      *)
(***************************************************************************)
\* C24: whatever calls of connect, disconnect, enable_torque,
\* disable_torque, nod and emergency_stop have been made, the torque is
\* enabled only while the interface is connected.
C24_TorqueOnlyConnected == torque_enabled => is_connected

\* enable_torque has enabled the torque of a connected interface.
C24_Witness ==
    /\ robot_call.op = "enable_torque"
    /\ robot_ret = True
    /\ torque_enabled
    /\ is_connected

\* C25: enable_torque and disable_torque called on an interface that is not
\* connected return False, change no field and emit no status_changed.
C25_TorqueNeedsConnection ==
    [][(robot_call'.op \in {"enable_torque", "disable_torque"} /\ ~is_connected)
        => /\ robot_ret' = False
           /\ ~EmitsIn(robot_events', "status_changed")
           /\ UNCHANGED <<is_connected, torque_enabled, current_position,
                          target_position, is_moving, lerobot_robot>>]_vars

\* C26: an interface that is not connected holds no adapter
\* (lerobot_robot is None), also after a connect that failed and after
\* disconnect.
C26_AdapterOnlyConnected == ~is_connected => ~lerobot_robot.exists

\* C27: no movement is in flight on an interface that is not connected:
\* is_moving holds only while is_connected holds.
C27_MovingOnlyConnected == is_moving => is_connected

\* C28: a move_to_position call made on an interface that is not connected,
\* or with a name that is not in the table of presets, returns False before
\* the adapter is read or written: is_moving, target_position and
\* current_position stay as they were and none of movement_started,
\* position_reached and movement_completed is emitted.
C28_RejectedBeforeIO ==
    [][(/\ robot_call'.op = "move_to_position"
        /\ robot_call'.task = NoTask
        /\ \/ ~is_connected
           \/ robot_call'.arg \notin DOMAIN saved_positions)
        => /\ robot_ret' = False
           /\ adapter_io' = <<>>
           /\ MoveSignals(robot_events') = <<>>
           /\ UNCHANGED <<is_moving, target_position, current_position>>]_vars

\* A connected interface that holds an adapter has refused a name that is
\* not in its table.
C28_Witness ==
    /\ robot_call.op = "move_to_position"
    /\ robot_call.task = NoTask
    /\ robot_call.arg \notin DOMAIN saved_positions
    /\ is_connected
    /\ lerobot_robot.exists
    /\ robot_ret = False
    /\ robot_events = <<>>

\* C29: a movement gives way between any two of its waypoint writes, so that
\* emergency_stop, change_stage and get_status can run there: no step of
\* move_to_position, the code run from one await to the next, writes more
\* than one waypoint.
C29_YieldsBetweenWrites ==
    robot_call.op = "move_to_position" => Len(Written(adapter_io)) <= 1

\* C30: a save is all or nothing: after every step, one that fails midway
\* included, robot_positions.json holds the whole table it held before the
\* step or the whole table of presets as the step leaves it, never an empty
\* or partial document.
C30_SaveAllOrNothing ==
    [][\/ SamePosition(positions_file', positions_file)
       \/ SamePosition(positions_file', saved_positions')]_vars

(***************************************************************************)
(* Properties of the adapter's owner and of the stage data.                *)
(***************************************************************************)
\* The positions the adapter answers for: the arm and the mock devices.
AdapterPositions == <<hw_position, lerobot_robot.mock_positions>>

BagOf(data, stage) == IF stage \in DOMAIN data THEN data[stage] ELSE {}

\* The stage a set_stage_data or clear_stage_data call of the step aims at.
TargetStage == IF stage_call'.arg # None THEN stage_call'.arg ELSE current_stage

\* C32: the data bag of a stage changes only in a set_stage_data or
\* clear_stage_data call that aims at the stage, or in a change_stage call
\* into the stage that carries data and returns True, which leaves exactly
\* that data in the bag; a change_stage that returns False or names the
\* current stage changes no bag.
C32_BagChangesOnlyByOwner ==
    [][\A stage \in valid_stages \cup InvalidStageNames :
          BagOf(stage_data', stage) # BagOf(stage_data, stage)
          => \/ /\ stage_call'.op \in {"set_stage_data", "clear_stage_data"}
                /\ TargetStage = stage
             \/ /\ stage_call'.op = "change_stage"
                /\ stage_call'.arg = stage
                /\ stage_call'.data # {}
                /\ stage_ret' = True
                /\ current_stage # stage /\ current_stage' = stage
                /\ BagOf(stage_data', stage) = stage_call'.data]_vars

(***************************************************************************)
(* Properties of the robot interface: the fields between the steps.        *)
(***************************************************************************)
\* C33: at every point where other code can look at the interface,
\* is_moving holds exactly when target_position is set, so that get_status
\* never answers moving_to_None.
C33_MovingIffTarget ==
    /\ is_moving <=> target_position # None
    /\ get_status(RIState) # <<"moving_to", None>>

\* A movement is in flight on a connected interface and get_status names
\* its target.
C33_Witness ==
    /\ is_connected
    /\ is_moving
    /\ BagCardinality(tasks) > 0
    /\ get_status(RIState) = <<"moving_to", target_position>>

(***************************************************************************)
(* Properties of the stage controller with hooks that may raise.           *)
(***************************************************************************)
\* The stage signals of a step, in the order of their emission.
StageSignals(events) == [i \in 1..Len(events) |-> <<events[i].sig, events[i].args>>]

\* C34: current_stage changes only in a change_stage call that emits
\* stage_exited(old), stage_entered(new) and stage_changed(old, new); a
\* change_stage call that returns False, one whose enter or exit hook raised
\* included, leaves current_stage, previous_stage and the stage data as they
\* were before the call.
C34_StageChangeAtomic ==
    [][/\ current_stage' # current_stage
          => StageSignals(stage_events') =
                 <<<<"stage_exited", <<current_stage>>>>,
                   <<"stage_entered", <<current_stage'>>>>,
                   <<"stage_changed", <<current_stage, current_stage'>>>>>>
       /\ (stage_call'.op = "change_stage" /\ stage_ret' = False)
          => UNCHANGED <<current_stage, previous_stage, stage_data>>]_vars

(***************************************************************************)
(* Properties of the robot interface: connection and movements in flight.  *)
(***************************************************************************)
\* C35: while the interface is not connected its current position name is
\* "unknown" and get_current_positions returns the empty position.
C35_DisconnectedIsUnknown ==
    ~is_connected
    => /\ current_position = "unknown"
       /\ \A hw_ok \in HardwareAnswers :
             get_current_positions(RIState, hw_ok).val = EmptyPosition

\* C36: connect() acts only on an interface that is not connected: a
\* connect() that runs, or runs on after its sleep, while the interface is
\* connected keeps the adapter it holds, the current position name,
\* is_moving and the torque as they are and emits no
\* status_changed("connected").
C36_ConnectOnlyFromDisconnected ==
    [][(robot_call'.op \in {"connect", "connect_resume"} /\ is_connected)
        => /\ UNCHANGED <<lerobot_robot, current_position, is_moving,
                          torque_enabled>>
           /\ \A i \in 1..Len(robot_events') :
                 ~(/\ robot_events'[i].sig = "status_changed"
                   /\ robot_events'[i].arg = "connected")]_vars

\* C37: a move_to_position(name) that emergency_stop met while it was
\* suspended does not report its position as reached: when it runs on it
\* emits no position_reached and leaves current_position as it is.
C37_StoppedNotReached ==
    [][(robot_call'.op = "move_resume" /\ robot_call'.task.stopped)
        => /\ ~EmitsIn(robot_events', "position_reached")
           /\ UNCHANGED current_position]_vars

\* The signals among events that end the movement to name: its
\* movement_completed, or error_occurred.
TerminalSignals(events, name) ==
    SelectSeq(events, LAMBDA e : \/ e.sig = "movement_completed" /\ e.arg = name
                                 \/ e.sig = "error_occurred")

\* The step runs a move_to_position call that has emitted movement_started:
\* it begins the call or takes it up after a sleep.
RunsMovement ==
    \/ robot_call'.op = "move_to_position" /\ EmitsIn(robot_events', "movement_started")
    \/ robot_call'.op = "move_resume"

\* The call of the step is suspended again when the step is over.
SuspendsAgain ==
    BagCardinality(tasks') =
        BagCardinality(tasks) + (IF robot_call'.op = "move_resume" THEN 0 ELSE 1)

\* A suspended move_to_position(name) is waiting.
InFlight(name) ==
    \E t \in BagToSet(tasks) : t.k.op = "move_to_position" /\ t.k.name = name

\* The last step took a suspended move_to_position(name) to its return.
Ended(name) ==
    /\ robot_call.op = "move_resume"
    /\ robot_call.arg = name
    /\ Len(TerminalSignals(robot_events, name)) = 1

\* C38: a move_to_position call that has emitted movement_started(name)
\* emits nothing that ends the movement while it is suspended, and in the
\* step in which it returns it emits exactly one of movement_completed(name)
\* and error_occurred and leaves is_moving false; and every suspended
\* movement is taken to that step in the end.
C38_MovementEndsOnce ==
    /\ [][RunsMovement
           => IF SuspendsAgain
              THEN Len(TerminalSignals(robot_events', robot_call'.arg)) = 0
              ELSE /\ Len(TerminalSignals(robot_events', robot_call'.arg)) = 1
                   /\ ~is_moving'
                   /\ robot_ret' \in {True, False}]_vars
    /\ \A name \in LiveNames : InFlight(name) ~> Ended(name)

\* A movement that was suspended has returned after its one
\* movement_completed.
C38_Witness ==
    /\ robot_call.op = "move_resume"
    /\ robot_ret = True
    /\ ~is_moving
    /\ TerminalSignals(robot_events, robot_call.arg) # <<>>
    /\ TerminalSignals(robot_events, robot_call.arg)[1].sig = "movement_completed"

=========================================================================
